---------------------------- MODULE Spec2Model ----------------------------
(***************************************************************************)
(* Model of the notification deduplication store (NotificationState) and   *)
(* of the delivery dispatcher built on it                                  *)
(* (TelegramNotifier.send_notifications_with_deduplication).               *)
(*                                                                         *)
(* Text values that the code compares, concatenates or rewrites (theater,  *)
(* date, slug, notification id) are sequences of one-character strings.    *)
(* Showtimes, movie names, ratings and event types are only compared for   *)
(* equality (showtimes also sorted), so they are kept as strings.          *)
(***************************************************************************)
EXTENDS Integers, Sequences, FiniteSets, TLC

VARIABLES
    db,     \* the notifications table: notification_id -> row
    now,    \* the wall clock, in days since Day0 (datetime.now())
    last,   \* the last call made on the store API and what it returned
    chain,  \* TRUE when the last two store calls were should_notify(e) and a
            \* successful mark_as_notified(e, is_update taken from that decision)
    pc,     \* where send_notifications_with_deduplication stands
    run,    \* the current (or last) call: its Q&A events, chat count, history
    stats,  \* the call's stats dictionary
    etn,    \* events_to_notify
    idx,    \* the position of the loop in execution: event and chat
    success,\* the success flag of the send loop
    trace,  \* per Q&A event: its decision and what was done for it
    config,         \* the scraper's configuration
    net,            \* per task: what the network does to its requests
    fpc,            \* position of scrape_all_parallel's thread
    scraper_stats,  \* self.stats of the scraper
    stats_lock,     \* the thread that holds self._stats_lock, or 0
    workers,        \* per pool thread: its position in scrape_date
    units,          \* per task: its future and what was done for it
    all_results,    \* the results collected so far
    calls,          \* per process of two that deliver on one store: the
                    \* locals of its call
    server,         \* run_server_mode: the main loop, the schedule and the
                    \* pipeline run in progress
    calc            \* the last call of a parsing function and its result

storeVars == <<db, now, last, chain>>
deliverVars == <<pc, run, stats, etn, idx, success, trace>>
fetchVars ==
    <<config, net, fpc, scraper_stats, stats_lock, workers, units, all_results>>
callVars == <<calls>>
serverVars == <<server>>
calcVars == <<calc>>
vars == <<db, now, last, chain, pc, run, stats, etn, idx, success, trace,
          config, net, fpc, scraper_stats, stats_lock, workers, units,
          all_results, calls, server, calc>>

---------------------------------------------------------------------------
(* Bounds of the model *)

\* the clock takes the values 0..MaxNow
MaxNow == 1

\* an UPDATE is not explored once notification_count has reached MaxCount
MaxCount == 2

\* the calendar day (days since 1970-01-01) of clock value 0: 2025-10-31
Day0 == 20392

---------------------------------------------------------------------------
(* Text: code points, comparison, replace *)

\* Optional values: None is the empty sequence, a value v is <<v>>
None == <<>>
Some(v) == <<v>>

Range(s) == {s[i] : i \in DOMAIN s}

\* the characters used, in increasing code point order
Ascii ==
    <<" ", "&", "+", "-", "/",
      "0", "1", "2", "3", "4", "5", "6", "7", "8", "9", ":", ";",
      "A", "E", "M", "P", "Q", "S", "_",
      "a", "b", "c", "d", "e", "f", "g", "h", "i", "j", "k", "l", "m",
      "n", "o", "p", "q", "r", "s", "t", "u", "v", "w", "x", "y", "z">>

Code(c) == CHOOSE i \in 1..Len(Ascii) : Ascii[i] = c

\* s < t for Python str and for SQLite TEXT (BINARY collation)
RECURSIVE StrLess(_, _)
StrLess(s, t) ==
    IF t = <<>> THEN FALSE
    ELSE IF s = <<>> THEN TRUE
    ELSE IF Head(s) = Head(t) THEN StrLess(Tail(s), Tail(t))
    ELSE Code(Head(s)) < Code(Head(t))

\* str.replace(" ", "_")
ReplaceSpace(s) == [i \in 1..Len(s) |-> IF s[i] = " " THEN "_" ELSE s[i]]

\* the characters of a showtime string
TimeChars(t) ==
    CASE t = "7:00 PM" -> <<"7", ":", "0", "0", " ", "P", "M">>
      [] t = "9:30 PM" -> <<"9", ":", "3", "0", " ", "P", "M">>
      [] t = "11:00 PM" -> <<"1", "1", ":", "0", "0", " ", "P", "M">>

\* sorted(list(S)) for a set S of showtime strings
RECURSIVE SortedList(_)
SortedList(S) ==
    IF S = {} THEN <<>>
    ELSE LET m == CHOOSE x \in S :
                    \A y \in S \ {x} : StrLess(TimeChars(x), TimeChars(y))
         IN <<m>> \o SortedList(S \ {m})

---------------------------------------------------------------------------
(* Dates: strftime("%Y-%m-%d") of a calendar day *)

Digit(n) == <<"0", "1", "2", "3", "4", "5", "6", "7", "8", "9">>[n + 1]

Pad2(n) == <<Digit((n \div 10) % 10), Digit(n % 10)>>

Pad4(n) == Pad2(n \div 100) \o Pad2(n % 100)

\* the proleptic Gregorian date of a day number (days since 1970-01-01)
CivilFromDays(day) ==
    LET z == day + 719468
        era == z \div 146097
        doe == z - era * 146097
        yoe == (doe - doe \div 1460 + doe \div 36524 - doe \div 146096) \div 365
        doy == doe - (365 * yoe + yoe \div 4 - yoe \div 100)
        mp == (5 * doy + 2) \div 153
        d == doy - (153 * mp + 2) \div 5 + 1
        m == IF mp < 10 THEN mp + 3 ELSE mp - 9
        y == yoe + era * 400 + (IF m <= 2 THEN 1 ELSE 0)
    IN [year |-> y, month |-> m, day |-> d]

StrfDate(day) ==
    LET c == CivilFromDays(day)
    IN Pad4(c.year) \o <<"-">> \o Pad2(c.month) \o <<"-">> \o Pad2(c.day)

\* the calendar day of a clock value
Today(t) == Day0 + t

---------------------------------------------------------------------------
(* Events (schema.EventData) *)

QA == "Q&A"

DEFAULT_RETENTION_DAYS == 30

Theater1 == <<"A", " ", "1">>
Theater2 == <<"A", "_", "1">>
SlugX == <<"x">>
SlugY == <<"y">>

\* a date in the future, and the two dates around the retention cutoff
DateFuture == StrfDate(Day0 + 1)
DateEdge == StrfDate(Day0 - DEFAULT_RETENTION_DAYS)

EventData(name, theater, date, slug, type, showtimes, runtime, rating) ==
    [movie_name |-> name, theater |-> theater, date |-> date, slug |-> slug,
     event_type |-> type, showtimes |-> showtimes, runtime |-> runtime,
     rating |-> rating]

\* showtime lists: one time, two in both orders, a repetition, and a list
\* that shares one time with the others
ShowLists ==
    { <<"7:00 PM">>,
      <<"7:00 PM", "9:30 PM">>,
      <<"9:30 PM", "7:00 PM">>,
      <<"7:00 PM", "7:00 PM">>,
      <<"11:00 PM", "7:00 PM">> }

\* the events the store API is called with
Events ==
    { EventData("Movie Q&A", Theater1, DateFuture, SlugX, QA, l, Some(120), "R") :
        l \in ShowLists }
    \cup
    { EventData("Movie Live Q&A", Theater2, DateFuture, SlugX, QA,
                <<"7:00 PM">>, None, "") }
    \cup
    { EventData("Other Q&A", Theater1, DateEdge, SlugY, QA,
                <<"9:30 PM">>, Some(90), "PG") }

---------------------------------------------------------------------------
(* The store (NotificationState) *)

\* the outcomes of a storage access
IOs == {"ok", "dberror", "badjson"}

generate_notification_id(event) ==
    ReplaceSpace(event.theater) \o <<"_">> \o event.date \o <<"_">> \o event.slug

\* json.dumps of a list of strings: the text keeps order and repetitions
json_dumps(list) == [json |-> list]

\* json.loads of a stored text
json_loads(text) == text.json

New == [should_notify |-> TRUE, changes |-> None]
Unchanged == [should_notify |-> FALSE, changes |-> None]

ShowtimeChange(added, removed, unchanged) ==
    [added |-> added, removed |-> removed, unchanged |-> unchanged]

\* a diff with "unchanged" computed as the union
DiffUnion(existing_showtimes, new_showtimes) ==
    ShowtimeChange(SortedList(new_showtimes \ existing_showtimes),
                   SortedList(existing_showtimes \ new_showtimes),
                   SortedList(existing_showtimes \cup new_showtimes))

\* the ShowtimeChange should_notify builds from the two sets
Diff(existing_showtimes, new_showtimes) ==
    ShowtimeChange(SortedList(new_showtimes \ existing_showtimes),
                   SortedList(existing_showtimes \ new_showtimes),
                   SortedList(existing_showtimes \cap new_showtimes))

\* should_notify comparing the lists instead of the sets
should_notify_lists(store, event, io) ==
    LET notification_id == generate_notification_id(event)
    IN IF io = "dberror" THEN New
       ELSE IF notification_id \notin DOMAIN store THEN New
       ELSE IF io = "badjson" THEN New
       ELSE LET existing == json_loads(store[notification_id].showtimes)
            IN IF existing = event.showtimes THEN Unchanged
               ELSE [should_notify |-> TRUE,
                     changes |-> Some(Diff(Range(existing),
                                           Range(event.showtimes)))]

\* should_notify failing closed: a read error suppresses the notification
should_notify_fail_closed(store, event, io) ==
    LET notification_id == generate_notification_id(event)
    IN IF io # "ok" THEN Unchanged
       ELSE IF notification_id \notin DOMAIN store THEN New
       ELSE LET existing_showtimes ==
                    Range(json_loads(store[notification_id].showtimes))
                new_showtimes == Range(event.showtimes)
            IN IF existing_showtimes = new_showtimes THEN Unchanged
               ELSE [should_notify |-> TRUE,
                     changes |-> Some(Diff(existing_showtimes, new_showtimes))]

\* NotificationState.should_notify; io is the outcome of the read: a
\* sqlite3.Error, a stored text json.loads rejects, or success
should_notify(store, event, io) ==
    LET notification_id == generate_notification_id(event)
    IN IF io = "dberror" THEN New
       ELSE IF notification_id \notin DOMAIN store THEN New
       ELSE IF io = "badjson" THEN New
       ELSE LET existing_showtimes ==
                    Range(json_loads(store[notification_id].showtimes))
                new_showtimes == Range(event.showtimes)
            IN IF existing_showtimes = new_showtimes THEN Unchanged
               ELSE [should_notify |-> TRUE,
                     changes |-> Some(Diff(existing_showtimes, new_showtimes))]

\* the row INSERT OR REPLACE writes
NewRow(event, t) ==
    [theater |-> event.theater, date |-> event.date,
     movie_name |-> event.movie_name, movie_slug |-> event.slug,
     event_type |-> event.event_type,
     showtimes |-> json_dumps(event.showtimes),
     runtime |-> event.runtime, rating |-> event.rating,
     first_notified_at |-> t, last_updated_at |-> t,
     notification_count |-> 1]

\* an UPDATE that leaves the showtimes column alone
UpdatedRowKeepsShowtimes(row, event, t) ==
    [row EXCEPT !.last_updated_at = t,
                !.notification_count = @ + 1]

\* an UPDATE that also rewrites the movie name
UpdatedRowRenames(row, event, t) ==
    [row EXCEPT !.showtimes = json_dumps(event.showtimes),
                !.movie_name = event.movie_name,
                !.last_updated_at = t,
                !.notification_count = @ + 1]

\* the row UPDATE ... SET showtimes, last_updated_at, notification_count leaves
UpdatedRow(row, event, t) ==
    [row EXCEPT !.showtimes = json_dumps(event.showtimes),
                !.last_updated_at = t,
                !.notification_count = @ + 1]

\* mark_as_notified writing the row and then reporting the error
mark_as_notified_dirty(store, event, is_update, t, io) ==
    LET notification_id == generate_notification_id(event)
    IN [db |-> [k \in DOMAIN store \cup {notification_id} |->
                    IF k = notification_id THEN NewRow(event, t) ELSE store[k]],
        raised |-> io = "dberror"]

\* NotificationState.mark_as_notified at clock value t; io is the outcome of
\* the write ("dberror": sqlite3.Error, the transaction is rolled back)
mark_as_notified(store, event, is_update, t, io) ==
    LET notification_id == generate_notification_id(event)
    IN IF io = "dberror" THEN [db |-> store, raised |-> TRUE]
       ELSE IF is_update
       THEN [db |-> [k \in DOMAIN store |->
                        IF k = notification_id
                        THEN UpdatedRow(store[k], event, t)
                        ELSE store[k]],
             raised |-> FALSE]
       ELSE [db |-> [k \in DOMAIN store \cup {notification_id} |->
                        IF k = notification_id
                        THEN NewRow(event, t)
                        ELSE store[k]],
             raised |-> FALSE]

\* the cleanup, were a row dated on the cutoff day deleted as well
cleanup_old_entries_inclusive(store, days, t, io) ==
    LET cutoff_date == StrfDate(Today(t) - days)
        kept == {k \in DOMAIN store : StrLess(cutoff_date, store[k].date)}
    IN IF io = "dberror" THEN [db |-> store, deleted |-> 0]
       ELSE [db |-> [k \in kept |-> store[k]],
             deleted |-> Cardinality(DOMAIN store \ kept)]

\* the cleanup, were a row's age taken from its last update
cleanup_old_entries_by_age(store, days, t, io) ==
    LET kept == {k \in DOMAIN store : store[k].last_updated_at >= t - days}
    IN IF io = "dberror" THEN [db |-> store, deleted |-> 0]
       ELSE [db |-> [k \in kept |-> store[k]],
             deleted |-> Cardinality(DOMAIN store \ kept)]

\* NotificationState.cleanup_old_entries at clock value t
cleanup_old_entries(store, days, t, io) ==
    LET cutoff_date == StrfDate(Today(t) - days)
        kept == {k \in DOMAIN store : ~StrLess(store[k].date, cutoff_date)}
    IN IF io = "dberror" THEN [db |-> store, deleted |-> 0]
       ELSE [db |-> [k \in kept |-> store[k]],
             deleted |-> Cardinality(DOMAIN store \ kept)]

---------------------------------------------------------------------------
(* The fetch stage: AMCShowtimeScraper._fetch_with_retry, scrape_date and   *)
(* scrape_all_parallel                                                     *)

\* the largest max_retries of a configuration
MaxRetries == 4

\* the largest number of worker threads
MaxWorkers == 2

\* the largest number of tasks of a run
MaxUnits == 4

\* theaters of config["theaters"]; ThSameName has the display name of ThA
\* under another slug, ThNoMarket lacks the "market" key and ThNoName the
\* "name" key (no theater here has the empty string for a name)
ThA == [name |-> <<"A", " ", "1">>, slug |-> <<"a", "1">>, market |-> Some("nyc")]
ThB == [name |-> <<"A", " ", "2">>, slug |-> <<"a", "2">>, market |-> Some("nyc")]
ThSameName == [name |-> <<"A", " ", "1">>, slug |-> <<"a", "x">>,
               market |-> Some("nyc")]
ThNoMarket == [name |-> <<"A", " ", "0">>, slug |-> <<"a", "0">>, market |-> None]
ThNoName == [name |-> None, slug |-> <<"a", "3">>, market |-> Some("nyc")]

\* the values of config["scraping"]["retry_delays"]
DelayLists == {<<>>, <<1>>, <<1, 3>>}

\* the keys of self.stats
StatKeys == {"total_requests", "successful_requests", "failed_requests",
             "total_movies_found", "parsing_errors"}

ZeroCounters == [k \in StatKeys |-> 0]

\* what requests.get and raise_for_status can do to an attempt
Failures == {"timeout", "http429", "http500", "connerror"}

\* the response bodies of a successful attempt, by how parsing ends: no text,
\* HTML that cannot be parsed, no movie section, only movies that fail
\* validation, an exception while the movies are built, one valid movie
Bodies == {"empty", "badhtml", "nomovies", "invalid", "raises", "movies"}

\* the sequences of n failures
FailSeqs(n) == [1..n -> Failures]

\* what the network does to the attempts of one unit under max_retries = n:
\* every attempt fails, or fewer fail and the next is answered with a body
UnitNets(n) ==
    FailSeqs(n) \cup
    UNION {{f \o <<b>> : f \in FailSeqs(k), b \in Bodies} : k \in 0..(n - 1)}

\* one unit fetched by one thread, under every retry policy and every
\* behaviour of the network
SingleRuns ==
    UNION {{[config |-> [max_retries |-> n, retry_delays |-> d,
                         theaters |-> <<ThA>>, days_ahead |-> 1,
                         max_workers |-> 1],
             net |-> <<s>>] : d \in DelayLists, s \in UnitNets(n)}
           : n \in 0..MaxRetries}

PoolConfig(theaters, days_ahead, max_workers) ==
    [max_retries |-> 2, retry_delays |-> <<1>>, theaters |-> theaters,
     days_ahead |-> days_ahead, max_workers |-> max_workers]

\* several units fetched by a pool: two theaters listed against their sort
\* order over two days, two theaters with one display name, a theater
\* without "market" and a theater without "name"
PoolRuns ==
    UNION {{[config |-> PoolConfig(<<ThB, ThA>>, 2, w),
             net |-> <<<<"timeout", "movies">>, <<"nomovies">>,
                       <<"http429", "connerror">>, <<"movies">>>>],
            [config |-> PoolConfig(<<ThA, ThSameName>>, 1, w),
             net |-> <<<<"movies">>, <<"http500", "timeout">>>>],
            [config |-> PoolConfig(<<ThNoMarket, ThA>>, 1, w),
             net |-> <<<<>>, <<"http500", "movies">>>>],
            [config |-> PoolConfig(<<ThA, ThNoName>>, 1, w),
             net |-> <<<<"movies">>, <<>>>>]}
           : w \in 1..MaxWorkers}

Runs == SingleRuns \cup PoolRuns

\* the tasks of scrape_all_parallel, theater by theater and date by date
\* (lines 529-538)
Tasks(c) ==
    [k \in 1..(Len(c.theaters) * c.days_ahead) |->
        [theater |-> c.theaters[((k - 1) \div c.days_ahead) + 1],
         date |-> StrfDate(Today(0) + ((k - 1) % c.days_ahead))]]

\* a DailyShowtimes value (fetch_time left out)
DailyShowtimes(date, theater, movies, ok, error_message) ==
    [date |-> date, theater |-> theater, movies |-> movies,
     success |-> ok, error_message |-> error_message]

\* the result scrape_date returns when _fetch_with_retry gave no text
ResultNoData(task) ==
    DailyShowtimes(task.date, task.theater.name, 0, FALSE,
                   Some("Failed to fetch data after all retries"))

\* the class attribute MIN_MOVIES_PER_DAY (line 38)
MIN_MOVIES_PER_DAY == 1

\* the result of a parse, were no least number of movies asked for
ValidatedResultNoMinimum(task, movies) ==
    DailyShowtimes(task.date, task.theater.name, movies, TRUE, None)

\* the result scrape_date returns once the parsed movies were validated
\* (lines 437-454)
ValidatedResult(task, movies) ==
    LET ok == movies >= MIN_MOVIES_PER_DAY
    IN DailyShowtimes(task.date, task.theater.name, movies, ok,
                      IF ok THEN None ELSE Some("Fewer movies than expected"))

\* the result scrape_date returns for a fetched body (lines 405-464)
ResultOfBody(task, body) ==
    CASE body = "empty" -> ResultNoData(task)
      [] body \in {"badhtml", "nomovies"} ->
            DailyShowtimes(task.date, task.theater.name, 0, FALSE,
                           Some("No movies found in response"))
      [] body = "invalid" -> ValidatedResult(task, 0)
      [] body = "raises" ->
            DailyShowtimes(task.date, task.theater.name, 0, FALSE,
                           Some("Parsing error"))
      [] body = "movies" -> ValidatedResult(task, 1)

\* the result scrape_all_parallel builds for a future that raised
\* (lines 566-579)
ResultOfException(task) ==
    DailyShowtimes(task.date, task.theater.name, 0, FALSE,
                   Some("Execution error"))

\* the sleeps, were the delay list walked round and round
SleepsAfterCycling(kind, attempt, max_retries, retry_delays) ==
    LET limited == kind = "http429"
        more == attempt < max_retries - 1
        n == Len(retry_delays)
    IN IF (limited \/ more) /\ n = 0
       THEN [raised |-> TRUE, sleeps |-> <<>>]
       ELSE [raised |-> FALSE,
             sleeps |-> (IF limited THEN <<retry_delays[n] * 2>> ELSE <<>>)
                        \o (IF more THEN <<retry_delays[(attempt % n) + 1]>>
                            ELSE <<>>)]

\* the sleeps after a failed attempt: on HTTP 429 twice the last delay
\* (line 179), then, unless the attempt was the last, the delay of the
\* attempt's index or the last one (lines 184-187); an index into an empty
\* list raises IndexError
SleepsAfter(kind, attempt, max_retries, retry_delays) ==
    LET limited == kind = "http429"
        more == attempt < max_retries - 1
        n == Len(retry_delays)
        i == IF attempt < n - 1 THEN attempt ELSE n - 1
    IN IF (limited \/ more) /\ n = 0
       THEN [raised |-> TRUE, sleeps |-> <<>>]
       ELSE [raised |-> FALSE,
             sleeps |-> (IF limited THEN <<retry_delays[n] * 2>> ELSE <<>>)
                        \o (IF more THEN <<retry_delays[i + 1]>> ELSE <<>>)]

NoConfig == [max_retries |-> 0, retry_delays |-> <<>>, theaters |-> <<>>,
             days_ahead |-> 0, max_workers |-> 0]

NoWait == [index |-> -1, kind |-> "", sleeps |-> <<>>, raised |-> FALSE]

IdleWorker == [pc |-> "idle", u |-> 0, attempt |-> 0, key |-> "", tmp |-> 0,
               body |-> ""]

\* a task before a worker has taken it
QueuedUnit(task) ==
    [task |-> task, st |-> "queued", made |-> 0, incs |-> ZeroCounters,
     wait |-> NoWait, fetched |-> FALSE, result |-> None]

\* no scraper is running
FetchOff ==
    /\ config = NoConfig
    /\ net = <<>>
    /\ fpc = "off"
    /\ scraper_stats = ZeroCounters
    /\ stats_lock = 0
    /\ workers = <<>>
    /\ units = <<>>
    /\ all_results = <<>>

\* no pair of concurrent calls is under way
NoCalls == calls = <<>>

NoServer == [pc |-> "off"]

\* the server mode is not in use
ServerOff == server = NoServer

NoCalc == [op |-> "none"]

\* no parsing function has been called
CalcOff == calc = NoCalc

---------------------------------------------------------------------------
(* The store API called directly, in any order *)

NoCall == [op |-> "none"]

NoRun == [qa |-> <<>>, nchats |-> 0, role |-> 0, dbStart |-> <<>>,
          faulted |-> FALSE, rejected |-> FALSE, kept |-> TRUE,
          cleanups |-> 0]
ZeroStats == [sent |-> 0, failed |-> 0, skipped |-> 0, updated |-> 0]
NoIdx == [i |-> 0, j |-> 0, c |-> 0]

DeliverIdle ==
    /\ pc = "idle"
    /\ run = NoRun
    /\ stats = ZeroStats
    /\ etn = <<>>
    /\ idx = NoIdx
    /\ success = TRUE
    /\ trace = <<>>

StoreInit ==
    /\ db = <<>>
    /\ now = 0
    /\ last = NoCall
    /\ chain = FALSE
    /\ DeliverIdle
    /\ FetchOff
    /\ NoCalls
    /\ ServerOff
    /\ CalcOff

\* the count an UPDATE for this event would increment is below the cap
BelowCap(store, event) ==
    LET id == generate_notification_id(event)
    IN id \in DOMAIN store => store[id].notification_count < MaxCount

ShouldNotify(e, io) ==
    /\ io = "badjson" => generate_notification_id(e) \in DOMAIN db
    /\ last' = [op |-> "should_notify", ev |-> e, io |-> io,
                ret |-> should_notify(db, e, io),
                after_mark |-> chain /\ last.ev = e]
    /\ chain' = FALSE
    /\ UNCHANGED <<db, now>>
    /\ UNCHANGED deliverVars
    /\ UNCHANGED <<fetchVars, callVars, serverVars, calcVars>>

MarkAsNotified(e, is_update, io) ==
    /\ io # "badjson"
    /\ is_update => BelowCap(db, e)
    /\ LET r == mark_as_notified(db, e, is_update, now, io)
       IN /\ db' = r.db
          /\ last' = [op |-> "mark_as_notified", ev |-> e, io |-> io,
                      is_update |-> is_update, raised |-> r.raised]
          /\ chain' = /\ last.op = "should_notify"
                      /\ last.ev = e
                      /\ is_update = (last.ret.changes # None)
                      /\ ~r.raised
    /\ UNCHANGED now
    /\ UNCHANGED deliverVars
    /\ UNCHANGED <<fetchVars, callVars, serverVars, calcVars>>

CleanupOldEntries(days, io) ==
    /\ io # "badjson"
    /\ LET r == cleanup_old_entries(db, days, now, io)
       IN /\ db' = r.db
          /\ last' = [op |-> "cleanup_old_entries", days |-> days, io |-> io,
                      deleted |-> r.deleted]
    /\ chain' = FALSE
    /\ UNCHANGED now
    /\ UNCHANGED deliverVars
    /\ UNCHANGED <<fetchVars, callVars, serverVars, calcVars>>

\* time passes
Tick ==
    /\ now < MaxNow
    /\ now' = now + 1
    /\ UNCHANGED <<db, last, chain>>
    /\ UNCHANGED deliverVars
    /\ UNCHANGED <<fetchVars, callVars, serverVars, calcVars>>

StoreNext ==
    \/ \E e \in Events, io \in IOs : ShouldNotify(e, io)
    \/ \E e \in Events, u \in BOOLEAN, io \in IOs : MarkAsNotified(e, u, io)
    \/ \E d \in {0, DEFAULT_RETENTION_DAYS}, io \in IOs : CleanupOldEntries(d, io)
    \/ Tick

SpecStore == StoreInit /\ [][StoreNext]_vars

---------------------------------------------------------------------------
(* The delivery dispatcher:                                                *)
(* TelegramNotifier.send_notifications_with_deduplication                  *)

\* the largest number of chat ids a call is given
MaxChats == 2

P1 == EventData("Movie Q&A", Theater1, DateFuture, SlugX, QA,
                <<"7:00 PM">>, Some(120), "R")
P1b == EventData("Movie Q&A", Theater1, DateFuture, SlugX, QA,
                 <<"7:00 PM", "9:30 PM">>, Some(120), "R")
P2 == EventData("Other Q&A", Theater1, DateEdge, SlugY, QA,
                <<"9:30 PM">>, Some(90), "PG")
P2b == EventData("Other Q&A", Theater1, DateEdge, SlugY, QA,
                 <<"7:00 PM">>, Some(90), "PG")
PFan == EventData("Fan Night", Theater1, DateFuture, SlugY, "Fan Event",
                  <<"7:00 PM">>, None, "")

DeliverEvents == {P1, P1b, P2, P2b, PFan}

\* the lists of events a call is given: none, one event, two Q&A events with
\* different ids around an event of another type, the same two with one
\* showtime list changed, and two events that share an id
EventLists ==
    { <<>>, <<P1>>, <<P1b>>, <<P2>>, <<P2b>>,
      <<P1, PFan, P2>>, <<P1b, P2>>, <<P1, P1b>> }

\* the filter, were every event of the list kept
filter_keeps_all(events) == events

\* _filter_qa_events: the events of type Q&A, in order
RECURSIVE filter_qa_events(_)
filter_qa_events(events) ==
    IF events = <<>> THEN <<>>
    ELSE IF Head(events).event_type = QA
         THEN <<Head(events)>> \o filter_qa_events(Tail(events))
         ELSE filter_qa_events(Tail(events))

Ids(events) == {generate_notification_id(events[k]) : k \in DOMAIN events}

DistinctIds(events) == Cardinality(Ids(events)) = Len(events)

\* the UPDATEs the call can make to a row stay below the count cap
ListBelowCap(store, qa) ==
    \A id \in Ids(qa) \cap DOMAIN store :
        store[id].notification_count
          + Cardinality({k \in DOMAIN qa :
                /\ generate_notification_id(qa[k]) = id
                /\ should_notify(store, qa[k], "ok").changes # None})
          <= MaxCount

\* lists that agree except for the showtimes of exactly one event
OneShowtimesChange(old, new) ==
    /\ Len(old) = Len(new)
    /\ \E k \in DOMAIN old :
          /\ Range(new[k].showtimes) # Range(old[k].showtimes)
          /\ [new[k] EXCEPT !.showtimes = old[k].showtimes] = old[k]
          /\ \A m \in DOMAIN old \ {k} : new[m] = old[m]

\* the place of a call in a sequence of runs on one store: 2 after a run on
\* an empty store with the same events, 3 after such a second run with the
\* showtimes of one event changed, 1 for any other run on an empty store;
\* 4 after a run on an empty store with the same events, two of which share
\* an id
Role(prev, store, qa) ==
    IF prev.role = 1 /\ prev.qa = qa /\ DistinctIds(qa)
    THEN 2
    ELSE IF prev.role = 1 /\ prev.qa = qa /\ qa # <<>>
    THEN 4
    ELSE IF prev.role = 2 /\ DistinctIds(qa)
            /\ OneShowtimesChange(prev.qa, qa)
    THEN 3
    ELSE IF store = <<>> THEN 1
    ELSE 0

\* every send of the call was accepted and no storage access failed
Clean(r) == ~r.faulted /\ ~r.rejected

\* a call meets at most one storage fault
Fault(io) == io # "ok" => ~run.faulted

NoTrace == [dec |-> New, checked |-> FALSE, sends |-> 0, accepts |-> 0,
            counted |-> FALSE, marked |-> FALSE]

\* the call starts (lines 113-127); with no Q&A event it returns at once
Start(events, nchats) ==
    /\ pc = "idle"
    /\ LET qa_events == filter_qa_events(events)
       IN /\ ListBelowCap(db, qa_events)
          /\ run' = [qa |-> qa_events, nchats |-> nchats,
                     role |-> Role(run, db, qa_events),
                     dbStart |-> db, faulted |-> FALSE, rejected |-> FALSE,
                     kept |-> IF Role(run, db, qa_events) \in {2, 3}
                              THEN run.kept ELSE TRUE,
                     cleanups |-> 0]
          /\ trace' = [k \in DOMAIN qa_events |-> NoTrace]
          /\ pc' = IF qa_events = <<>> THEN "done" ELSE "check"
          /\ idx' = IF qa_events = <<>> THEN NoIdx ELSE [NoIdx EXCEPT !.i = 1]
    /\ stats' = ZeroStats
    /\ etn' = <<>>
    /\ success' = TRUE
    /\ UNCHANGED <<db, now, last, chain>>
    /\ UNCHANGED <<fetchVars, callVars, serverVars, calcVars>>

\* the position of the send loop, were the call to return after the last
\* entry
NextEntryThenReturn(list, j, nchats) ==
    IF j > Len(list) THEN [pc |-> "done", j |-> 0, c |-> 0]
    ELSE IF nchats = 0 THEN [pc |-> "mark", j |-> j, c |-> 0]
    ELSE [pc |-> "send", j |-> j, c |-> 1]

\* the position of the send loop at the next entry of events_to_notify, or
\* the cleanup after the last one (lines 163-167, 183)
NextEntry(list, j, nchats) ==
    IF j > Len(list) THEN [pc |-> "cleanup", j |-> 0, c |-> 0]
    ELSE IF nchats = 0 THEN [pc |-> "mark", j |-> j, c |-> 0]
    ELSE [pc |-> "send", j |-> j, c |-> 1]

\* one iteration of the check loop (lines 130-148)
Check(io) ==
    /\ pc = "check"
    /\ LET event == run.qa[idx.i]
           d == should_notify(db, event, io)
           queue == IF d.should_notify
                    THEN Append(etn, [event |-> event,
                                      is_update |-> d.changes # None,
                                      k |-> idx.i])
                    ELSE etn
           nxt == NextEntry(queue, 1, run.nchats)
       IN /\ Fault(io)
          /\ io = "badjson" => generate_notification_id(event) \in DOMAIN db
          /\ stats' = [stats EXCEPT
                 !.skipped = IF d.should_notify THEN @ ELSE @ + 1,
                 !.updated = IF d.should_notify /\ d.changes # None
                             THEN @ + 1 ELSE @]
          /\ etn' = queue
          /\ trace' = [trace EXCEPT ![idx.i].dec = d, ![idx.i].checked = TRUE]
          /\ run' = [run EXCEPT !.faulted = @ \/ io # "ok"]
          /\ IF idx.i < Len(run.qa)
             THEN /\ idx' = [idx EXCEPT !.i = @ + 1]
                  /\ pc' = "check"
             ELSE /\ idx' = [i |-> 0, j |-> nxt.j, c |-> nxt.c]
                  /\ pc' = nxt.pc
    /\ success' = TRUE
    /\ UNCHANGED <<db, now, last, chain>>
    /\ UNCHANGED <<fetchVars, callVars, serverVars, calcVars>>

\* the flag after a send, were it never lowered
AfterSendKeepsFlag(flag, accepted) == flag

\* the success flag after a send (lines 168-172)
AfterSend(flag, accepted) == flag /\ accepted

\* the chat loop, were it left at the first rejected send
MoreChatsUntilRejected(c, nchats, flag) == c < nchats /\ flag

\* the chat loop goes on to the next chat id, whatever the flag (line 167)
MoreChats(c, nchats, flag) == c < nchats

\* one _send_message of the send loop (lines 167-176), and after the last
\* chat of an event whose flag is down, the move to the next event
Send(accepted) ==
    /\ pc = "send"
    /\ LET entry == etn[idx.j]
           flag == AfterSend(success, accepted)
           nxt == NextEntry(etn, idx.j + 1, run.nchats)
       IN /\ stats' = [stats EXCEPT !.failed = IF accepted THEN @ ELSE @ + 1]
          /\ trace' = [trace EXCEPT
                 ![entry.k].sends = @ + 1,
                 ![entry.k].accepts = IF accepted THEN @ + 1 ELSE @]
          /\ run' = [run EXCEPT !.rejected = @ \/ ~accepted]
          /\ IF MoreChats(idx.c, run.nchats, flag)
             THEN /\ idx' = [idx EXCEPT !.c = @ + 1]
                  /\ pc' = "send"
                  /\ success' = flag
             ELSE IF flag
             THEN /\ idx' = idx
                  /\ pc' = "mark"
                  /\ success' = flag
             ELSE /\ idx' = [idx EXCEPT !.j = nxt.j, !.c = nxt.c]
                  /\ pc' = nxt.pc
                  /\ success' = TRUE
    /\ UNCHANGED <<db, now, last, chain, etn>>
    /\ UNCHANGED <<fetchVars, callVars, serverVars, calcVars>>

\* mark_as_notified for an event whose flag is up (lines 179-181); a
\* sqlite3.Error leaves the call through the exception
Mark(io) ==
    /\ pc = "mark"
    /\ io # "badjson"
    /\ Fault(io)
    /\ LET entry == etn[idx.j]
           r == mark_as_notified(db, entry.event, entry.is_update, now, io)
           nxt == NextEntry(etn, idx.j + 1, run.nchats)
       IN /\ db' = r.db
          /\ run' = [run EXCEPT !.faulted = @ \/ io # "ok"]
          /\ IF r.raised
             THEN /\ pc' = "raised"
                  /\ UNCHANGED <<stats, trace, idx>>
             ELSE /\ stats' = [stats EXCEPT !.sent = @ + 1]
                  /\ trace' = [trace EXCEPT ![entry.k].counted = TRUE,
                                            ![entry.k].marked = TRUE]
                  /\ idx' = [idx EXCEPT !.j = nxt.j, !.c = nxt.c]
                  /\ pc' = nxt.pc
    /\ success' = TRUE
    /\ UNCHANGED <<now, last, chain, etn>>
    /\ UNCHANGED <<fetchVars, callVars, serverVars, calcVars>>

\* the dates of the call's events are not before the cleanup's cutoff
Retained(qa, t) ==
    \A k \in DOMAIN qa :
        ~StrLess(qa[k].date, StrfDate(Today(t) - DEFAULT_RETENTION_DAYS))

\* the retention cleanup that ends the call (lines 151-156, 183-199)
Cleanup(io) ==
    /\ pc = "cleanup"
    /\ io # "badjson"
    /\ Fault(io)
    /\ db' = cleanup_old_entries(db, DEFAULT_RETENTION_DAYS, now, io).db
    /\ run' = [run EXCEPT !.faulted = @ \/ io # "ok",
                          !.kept = @ /\ Retained(run.qa, now),
                          !.cleanups = @ + 1]
    /\ pc' = "done"
    /\ UNCHANGED <<now, last, chain, stats, etn, idx, success, trace>>
    /\ UNCHANGED <<fetchVars, callVars, serverVars, calcVars>>

\* the call has returned its stats, or was left by an exception: its locals
\* are gone; what the next call is compared with is kept
Return ==
    /\ pc \in {"done", "raised"}
    /\ pc' = "idle"
    /\ run' = IF pc = "done" /\ run.role \in {1, 2} /\ Clean(run)
               THEN [NoRun EXCEPT !.qa = run.qa, !.role = run.role,
                                  !.kept = run.kept]
               ELSE NoRun
    /\ stats' = ZeroStats
    /\ etn' = <<>>
    /\ idx' = NoIdx
    /\ success' = TRUE
    /\ trace' = <<>>
    /\ UNCHANGED <<db, now, last, chain>>
    /\ UNCHANGED <<fetchVars, callVars, serverVars, calcVars>>

\* time passes; the call reads the clock in mark_as_notified and in
\* cleanup_old_entries only, so the clock is advanced just before them
DeliverTick ==
    /\ pc \in {"mark", "cleanup"}
    /\ now < MaxNow
    /\ now' = now + 1
    /\ UNCHANGED <<db, last, chain>>
    /\ UNCHANGED deliverVars
    /\ UNCHANGED <<fetchVars, callVars, serverVars, calcVars>>

DeliverInit ==
    /\ db = <<>>
    /\ now = 0
    /\ last = NoCall
    /\ chain = FALSE
    /\ DeliverIdle
    /\ FetchOff
    /\ NoCalls
    /\ ServerOff
    /\ CalcOff

DeliverNext ==
    \/ \E events \in EventLists, n \in 0..MaxChats : Start(events, n)
    \/ \E io \in IOs : Check(io)
    \/ \E accepted \in BOOLEAN : Send(accepted)
    \/ \E io \in IOs : Mark(io)
    \/ \E io \in IOs : Cleanup(io)
    \/ Return
    \/ DeliverTick

SpecDeliver == DeliverInit /\ [][DeliverNext]_vars

---------------------------------------------------------------------------
(* The fetch stage: the pool threads and the collecting thread *)

\* the counter _fetch_with_retry updates when the loop reaches an attempt
\* index: total_requests in the loop body (line 159), failed_requests after
\* the loop (line 190)
KeyAt(attempt, max_retries) ==
    IF attempt < max_retries THEN "total_requests" ELSE "failed_requests"

\* the lock can be taken, were it never held
CanAcquireAlways(owner) == TRUE

\* with self._stats_lock (line 73): the lock can be taken when no thread
\* holds it
CanAcquire(owner) == owner = 0

\* x sorts before y under key=lambda x: (x.theater, x.date) (line 582)
KeyLess(x, y) ==
    \/ StrLess(x.theater, y.theater)
    \/ x.theater = y.theater /\ StrLess(x.date, y.date)

\* list.sort, which is stable: an element stays behind its equals
RECURSIVE StableSort(_)
StableSort(list) ==
    IF list = <<>> THEN <<>>
    ELSE LET s == StableSort(SubSeq(list, 1, Len(list) - 1))
             x == list[Len(list)]
             n == Cardinality({i \in DOMAIN s : ~KeyLess(x, s[i])})
         IN SubSeq(s, 1, n) \o <<x>> \o SubSeq(s, n + 1, Len(s))

\* the collection loop, were a future that raised dropped
CollectedIfReturned(results, unit) ==
    IF unit.st = "raised" THEN results
    ELSE Append(results, unit.result[1])

\* all_results after the collection loop has handled a future (lines
\* 560-579)
Collected(results, unit) ==
    IF unit.st = "raised"
    THEN Append(results, ResultOfException(unit.task))
    ELSE Append(results, unit.result[1])

\* the pool runs its tasks: while the collection loop runs, and while the
\* with block is left through an exception (the executor's shutdown waits for
\* the tasks that were submitted)
PoolOpen == fpc \in {"run", "unwinding"}

\* a pool thread takes the next task and enters scrape_date (lines 383-393);
\* theater["name"] raises KeyError for a theater without "name", and building
\* the URL for a theater without "market"
Take(w) ==
    /\ PoolOpen
    /\ w \in DOMAIN workers
    /\ workers[w].pc = "idle"
    /\ \E u \in DOMAIN units :
          /\ units[u].st = "queued"
          /\ \A v \in 1..(u - 1) : units[v].st # "queued"
          /\ IF units[u].task.theater.name = None
                \/ units[u].task.theater.market = None
             THEN /\ units' = [units EXCEPT ![u].st = "raised"]
                  /\ UNCHANGED workers
             ELSE /\ units' = [units EXCEPT ![u].st = "running"]
                  /\ workers' = [workers EXCEPT ![w] =
                        [IdleWorker EXCEPT
                            !.pc = "stat", !.u = u,
                            !.key = KeyAt(0, config.max_retries)]]
    /\ UNCHANGED <<config, net, fpc, scraper_stats, stats_lock, all_results>>
    /\ UNCHANGED <<storeVars, deliverVars, callVars, serverVars, calcVars>>

\* _update_stats: the thread enters the lock and reads the counter
\* (lines 73-76)
Acquire(w) ==
    /\ PoolOpen
    /\ w \in DOMAIN workers
    /\ workers[w].pc = "stat"
    /\ CanAcquire(stats_lock)
    /\ stats_lock' = w
    /\ workers' = [workers EXCEPT ![w].pc = "upd",
                                  ![w].tmp = scraper_stats[workers[w].key]]
    /\ UNCHANGED <<config, net, fpc, scraper_stats, units, all_results>>
    /\ UNCHANGED <<storeVars, deliverVars, callVars, serverVars, calcVars>>

\* what the network does to the n-th request of a unit
Outcome(u, n) == IF n <= Len(net[u]) THEN net[u][n] ELSE "timeout"

\* one attempt of the worker's unit: requests.get and raise_for_status
\* (lines 161-162), and for a failed attempt the sleeps before the loop goes
\* on (lines 173-187); an IndexError leaves scrape_date and ends the future
Request(w, unit, outcome) ==
    LET me == workers[w]
        s == SleepsAfter(outcome, me.attempt, config.max_retries,
                         config.retry_delays)
    IN IF outcome \in Bodies
       THEN /\ workers' = [workers EXCEPT
                  ![w].pc = "stat", ![w].key = "successful_requests",
                  ![w].body = outcome]
            /\ units' = [units EXCEPT ![me.u] =
                  [unit EXCEPT !.made = @ + 1, !.fetched = TRUE]]
       ELSE /\ units' = [units EXCEPT ![me.u] =
                  [unit EXCEPT
                      !.made = @ + 1,
                      !.wait = [index |-> me.attempt, kind |-> outcome,
                                sleeps |-> s.sleeps, raised |-> s.raised],
                      !.st = IF s.raised THEN "raised" ELSE @]]
            /\ workers' = [workers EXCEPT ![w] =
                  IF s.raised THEN IdleWorker
                  ELSE [me EXCEPT
                           !.pc = "stat", !.attempt = @ + 1,
                           !.key = KeyAt(me.attempt + 1, config.max_retries)]]

\* _update_stats: the thread stores the counter and leaves the lock; then
\* the thread runs on to its next _update_stats call or to the end of
\* scrape_date, through the request that follows a total_requests update
Release(w) ==
    /\ PoolOpen
    /\ w \in DOMAIN workers
    /\ workers[w].pc = "upd"
    /\ LET me == workers[w]
           unit == units[me.u]
           counted == [unit EXCEPT !.incs[me.key] = @ + 1]
       IN /\ scraper_stats' = [scraper_stats EXCEPT ![me.key] = me.tmp + 1]
          /\ stats_lock' = 0
          /\ CASE me.key = "total_requests" ->
                    Request(w, counted, Outcome(me.u, unit.made + 1))
               [] me.key = "successful_requests"
                    /\ me.body \in {"movies", "badhtml"} ->
                    /\ workers' = [workers EXCEPT
                          ![w].pc = "stat",
                          ![w].key = IF me.body = "movies"
                                     THEN "total_movies_found"
                                     ELSE "parsing_errors"]
                    /\ units' = [units EXCEPT ![me.u] = counted]
               [] me.key = "successful_requests"
                    /\ me.body \notin {"movies", "badhtml"} ->
                    /\ workers' = [workers EXCEPT ![w] = IdleWorker]
                    /\ units' = [units EXCEPT ![me.u] =
                          [counted EXCEPT
                              !.st = "finished",
                              !.result = Some(ResultOfBody(unit.task, me.body))]]
               [] me.key = "failed_requests" ->
                    /\ workers' = [workers EXCEPT ![w] = IdleWorker]
                    /\ units' = [units EXCEPT ![me.u] =
                          [counted EXCEPT
                              !.st = "finished",
                              !.result = Some(ResultNoData(unit.task))]]
               [] me.key \in {"total_movies_found", "parsing_errors"} ->
                    /\ workers' = [workers EXCEPT ![w] = IdleWorker]
                    /\ units' = [units EXCEPT ![me.u] =
                          [counted EXCEPT
                              !.st = "finished",
                              !.result = Some(ResultOfBody(unit.task, me.body))]]
    /\ UNCHANGED <<config, net, fpc, all_results>>
    /\ UNCHANGED <<storeVars, deliverVars, callVars, serverVars, calcVars>>

\* the except block of the collection loop raises in its turn: it reads
\* theater["name"] (lines 568, 573)
HandlerRaises(unit) ==
    unit.st = "raised" /\ unit.task.theater.name = None

\* the collection loop handles a done future (lines 560-579); as_completed
\* yields the futures that are done in no fixed order; an exception of the
\* except block leaves the loop
Collect(u) ==
    /\ fpc = "run"
    /\ u \in DOMAIN units
    /\ units[u].st \in {"finished", "raised"}
    /\ IF HandlerRaises(units[u])
       THEN /\ fpc' = "unwinding"
            /\ UNCHANGED all_results
       ELSE /\ all_results' = Collected(all_results, units[u])
            /\ UNCHANGED fpc
    /\ units' = [units EXCEPT ![u].st =
                    IF @ = "raised" THEN "collected_raised" ELSE "collected"]
    /\ UNCHANGED <<config, net, scraper_stats, stats_lock, workers>>
    /\ UNCHANGED <<storeVars, deliverVars, callVars, serverVars, calcVars>>

\* the with block of the executor is left through the exception once every
\* submitted task has ended (line 552), and the exception leaves
\* scrape_all_parallel: nothing is sorted or returned
Escape ==
    /\ fpc = "unwinding"
    /\ \A u \in DOMAIN units :
          units[u].st \in {"finished", "raised", "collected", "collected_raised"}
    /\ fpc' = "raised"
    /\ UNCHANGED <<config, net, scraper_stats, stats_lock, workers, units,
                   all_results>>
    /\ UNCHANGED <<storeVars, deliverVars, callVars, serverVars, calcVars>>

\* every future was yielded: the results are sorted and returned
\* (lines 581-590)
SortResults ==
    /\ fpc = "run"
    /\ \A u \in DOMAIN units : units[u].st \in {"collected", "collected_raised"}
    /\ all_results' = StableSort(all_results)
    /\ fpc' = "done"
    /\ UNCHANGED <<config, net, scraper_stats, stats_lock, workers, units>>
    /\ UNCHANGED <<storeVars, deliverVars, callVars, serverVars, calcVars>>

\* scrape_all_parallel has built its tasks and its pool (lines 520-557)
FetchInit ==
    /\ db = <<>>
    /\ now = 0
    /\ last = NoCall
    /\ chain = FALSE
    /\ DeliverIdle
    /\ \E r \in Runs : config = r.config /\ net = r.net
    /\ fpc = "run"
    /\ scraper_stats = ZeroCounters
    /\ stats_lock = 0
    /\ workers = [w \in 1..config.max_workers |-> IdleWorker]
    /\ units = [k \in DOMAIN Tasks(config) |-> QueuedUnit(Tasks(config)[k])]
    /\ all_results = <<>>
    /\ NoCalls
    /\ ServerOff
    /\ CalcOff

FetchNext ==
    \/ \E w \in 1..MaxWorkers : Take(w)
    \/ \E w \in 1..MaxWorkers : Acquire(w)
    \/ \E w \in 1..MaxWorkers : Release(w)
    \/ \E u \in 1..MaxUnits : Collect(u)
    \/ SortResults
    \/ Escape

SpecFetch == FetchInit /\ [][FetchNext]_vars

---------------------------------------------------------------------------
(* Two processes that run send_notifications_with_deduplication on one     *)
(* store                                                                   *)

Callers == {1, 2}

\* the lists of events the two calls are given: the same event, the event
\* with another showtime list, and both around an event of another type
CallEventLists == { <<P1>>, <<P1b>>, <<P1, PFan, P1b>> }

\* the row of an id as a read finds it
RowAt(store, id) == IF id \in DOMAIN store THEN Some(store[id]) ELSE None

NoCallTrace == [dec |-> New, read |-> "", seen |-> None, sends |-> 0,
                accepts |-> 0, marked |-> FALSE]

\* a process before its call
IdleCall == [pc |-> "idle", qa |-> <<>>, nchats |-> 0, stats |-> ZeroStats,
             etn |-> <<>>, i |-> 0, j |-> 0, c |-> 0, success |-> TRUE,
             trace |-> <<>>, faulted |-> FALSE]

\* process p starts its call (lines 113-127)
CallStart(p, events, nchats) ==
    /\ calls[p].pc = "idle"
    /\ LET qa_events == filter_qa_events(events)
       IN calls' = [calls EXCEPT ![p] =
              [IdleCall EXCEPT
                  !.pc = IF qa_events = <<>> THEN "done" ELSE "check",
                  !.qa = qa_events,
                  !.nchats = nchats,
                  !.i = IF qa_events = <<>> THEN 0 ELSE 1,
                  !.trace = [k \in DOMAIN qa_events |-> NoCallTrace]]]
    /\ UNCHANGED <<storeVars, deliverVars, fetchVars, serverVars, calcVars>>

\* one iteration of the check loop of process p (lines 130-148)
CallCheck(p, io) ==
    /\ calls[p].pc = "check"
    /\ io \in {"ok", "dberror"}
    /\ io # "ok" => ~calls[p].faulted
    /\ LET me == calls[p]
           event == me.qa[me.i]
           d == should_notify(db, event, io)
           queue == IF d.should_notify
                    THEN Append(me.etn, [event |-> event,
                                         is_update |-> d.changes # None,
                                         k |-> me.i])
                    ELSE me.etn
           nxt == NextEntry(queue, 1, me.nchats)
           last_one == me.i = Len(me.qa)
       IN calls' = [calls EXCEPT ![p] =
              [me EXCEPT
                  !.stats = [@ EXCEPT
                      !.skipped = IF d.should_notify THEN @ ELSE @ + 1,
                      !.updated = IF d.should_notify /\ d.changes # None
                                  THEN @ + 1 ELSE @],
                  !.etn = queue,
                  !.trace[me.i] =
                      [@ EXCEPT !.dec = d, !.read = io,
                                !.seen = RowAt(db,
                                    generate_notification_id(event))],
                  !.faulted = @ \/ io # "ok",
                  !.i = IF last_one THEN 0 ELSE @ + 1,
                  !.j = IF last_one THEN nxt.j ELSE 0,
                  !.c = IF last_one THEN nxt.c ELSE 0,
                  !.pc = IF last_one THEN nxt.pc ELSE "check"]]
    /\ UNCHANGED <<storeVars, deliverVars, fetchVars, serverVars, calcVars>>

\* one _send_message of the send loop of process p (lines 163-176)
CallSend(p, accepted) ==
    /\ calls[p].pc = "send"
    /\ LET me == calls[p]
           entry == me.etn[me.j]
           flag == AfterSend(me.success, accepted)
           more == MoreChats(me.c, me.nchats, flag)
           nxt == NextEntry(me.etn, me.j + 1, me.nchats)
       IN calls' = [calls EXCEPT ![p] =
              [me EXCEPT
                  !.stats.failed = IF accepted THEN @ ELSE @ + 1,
                  !.trace[entry.k].sends = @ + 1,
                  !.trace[entry.k].accepts = IF accepted THEN @ + 1 ELSE @,
                  !.c = IF more THEN @ + 1 ELSE IF flag THEN @ ELSE nxt.c,
                  !.j = IF more \/ flag THEN @ ELSE nxt.j,
                  !.pc = IF more THEN "send"
                         ELSE IF flag THEN "mark" ELSE nxt.pc,
                  !.success = IF more \/ flag THEN flag ELSE TRUE]]
    /\ UNCHANGED <<storeVars, deliverVars, fetchVars, serverVars, calcVars>>

\* mark_as_notified of process p for an event whose flag is up (lines
\* 179-181)
CallMark(p, io) ==
    /\ calls[p].pc = "mark"
    /\ io \in {"ok", "dberror"}
    /\ io # "ok" => ~calls[p].faulted
    /\ LET me == calls[p]
           entry == me.etn[me.j]
           r == mark_as_notified(db, entry.event, entry.is_update, now, io)
           nxt == NextEntry(me.etn, me.j + 1, me.nchats)
       IN /\ db' = r.db
          /\ calls' = [calls EXCEPT ![p] =
                IF r.raised
                THEN [me EXCEPT !.pc = "raised", !.faulted = TRUE]
                ELSE [me EXCEPT
                         !.stats.sent = @ + 1,
                         !.trace[entry.k].marked = TRUE,
                         !.j = nxt.j, !.c = nxt.c, !.pc = nxt.pc,
                         !.success = TRUE]]
    /\ UNCHANGED <<now, last, chain, deliverVars, fetchVars, serverVars,
                   calcVars>>

\* the retention cleanup that ends the call of process p (lines 183-199)
CallCleanup(p, io) ==
    /\ calls[p].pc = "cleanup"
    /\ io \in {"ok", "dberror"}
    /\ io # "ok" => ~calls[p].faulted
    /\ db' = cleanup_old_entries(db, DEFAULT_RETENTION_DAYS, now, io).db
    /\ calls' = [calls EXCEPT ![p].pc = "done",
                              ![p].faulted = @ \/ io # "ok"]
    /\ UNCHANGED <<now, last, chain, deliverVars, fetchVars, serverVars,
                   calcVars>>

\* time passes before a process reads the clock
CallTick ==
    /\ \E p \in Callers : calls[p].pc \in {"mark", "cleanup"}
    /\ now < MaxNow
    /\ now' = now + 1
    /\ UNCHANGED <<db, last, chain, calls, deliverVars, fetchVars, serverVars,
                   calcVars>>

TwoInit ==
    /\ db = <<>>
    /\ now = 0
    /\ last = NoCall
    /\ chain = FALSE
    /\ DeliverIdle
    /\ FetchOff
    /\ calls = [p \in Callers |-> IdleCall]
    /\ ServerOff
    /\ CalcOff

TwoNext ==
    \/ \E p \in Callers, events \in CallEventLists, n \in 1..MaxChats :
          CallStart(p, events, n)
    \/ \E p \in Callers, io \in IOs : CallCheck(p, io)
    \/ \E p \in Callers, accepted \in BOOLEAN : CallSend(p, accepted)
    \/ \E p \in Callers, io \in IOs : CallMark(p, io)
    \/ \E p \in Callers, io \in IOs : CallCleanup(p, io)
    \/ CallTick

SpecTwoCalls == TwoInit /\ [][TwoNext]_vars

---------------------------------------------------------------------------
(* The pipeline and its server mode: AlertPipeline.run and                 *)
(* AlertPipeline.run_server_mode                                           *)

\* the largest number of pipeline runs of a server
MaxRuns == 2

\* the success flags of the results of a fetch stage, task by task
UnitFlags == {<<>>, <<FALSE, FALSE>>, <<TRUE, FALSE>>, <<TRUE, TRUE>>}

\* what a scrape step meets: the success of its units, scrape_all_parallel
\* or save_results leaving through an exception, and whether the results
\* file was written (save_to_json off or a write error leave none)
ScrapeOutcomes == [units : UnitFlags, raised : BOOLEAN, saved : BOOLEAN]

\* successful = sum(1 for r in results if r.success) (line 212)
Successful(flags) == Cardinality({k \in DOMAIN flags : flags[k]})

\* run_scraper (lines 187-225): the path of the results file, or None when
\* an exception was caught or no result has success
run_scraper(out) ==
    IF out.raised THEN None
    ELSE IF Successful(out.units) = 0 THEN None
    ELSE Some("scraped")

\* run_parser (lines 227-273): the path of the events file, or None when the
\* results file cannot be read or the parser raised
run_parser(saved, parser_ok) ==
    IF saved /\ parser_ok THEN Some("parsed") ELSE None

NoJob == [stage |-> "none", units |-> <<>>, escaped |-> FALSE,
          stages |-> <<>>, parsed |-> FALSE, status |-> ""]

\* run_pending, were it called by a timer thread whatever the main thread
\* is doing
CanRunPendingAnywhere(where) == where \notin {"off", "stopped"}

\* schedule.run_pending is called by the main loop only (line 551), and
\* runs the jobs that are due in the calling thread
CanRunPending(where) == where = "pending"

\* run_server_mode registers its handlers and its jobs (lines 496-541)
ServerStart ==
    /\ server.pc = "off"
    /\ server' = [pc |-> "initial", ret |-> "loop", run_count |-> 0,
                  shutdown_requested |-> FALSE, job_due |-> FALSE,
                  cleanup_due |-> FALSE, active |-> 0, late |-> FALSE,
                  job |-> NoJob]
    /\ UNCHANGED <<storeVars, deliverVars, fetchVars, callVars, calcVars>>

\* run_job is entered (lines 516-526) and run() starts its first step
BeginRun(ret) ==
    [server EXCEPT !.pc = "job", !.ret = ret,
                   !.run_count = @ + 1, !.active = @ + 1,
                   !.job = [NoJob EXCEPT !.stage = "scrape"]]

\* run() returns and run_job with it; schedule sets the next time of a job
\* it has run
EndRun(srv, job) ==
    [srv EXCEPT !.pc = srv.ret, !.active = @ - 1,
                !.job_due = IF srv.ret = "pending" THEN FALSE ELSE @,
                !.job = [job EXCEPT !.stage = "none"]]

\* the run at startup (line 545)
InitialRun ==
    /\ server.pc = "initial"
    /\ server' = BeginRun("loop")
    /\ UNCHANGED <<storeVars, deliverVars, fetchVars, callVars, calcVars>>

\* step 1 of run() (lines 402-409)
Scrape(out) ==
    /\ server.pc \notin {"off", "stopped"}
    /\ server.job.stage = "scrape"
    /\ LET scraped_file == run_scraper(out)
           job == [server.job EXCEPT
                      !.units = out.units,
                      !.escaped = out.raised,
                      !.stages = Append(@, "scrape")]
       IN server' =
              IF scraped_file = None
              THEN EndRun(server, [job EXCEPT !.status = "FAILED"])
              ELSE [server EXCEPT
                       !.job = [job EXCEPT !.stage = "parse",
                                           !.parsed = out.saved]]
    /\ UNCHANGED <<storeVars, deliverVars, fetchVars, callVars, calcVars>>

\* step 2 of run() (lines 427-434); job.parsed holds whether the results
\* file exists
Parse(parser_ok) ==
    /\ server.pc \notin {"off", "stopped"}
    /\ server.job.stage = "parse"
    /\ LET parsed_file == run_parser(server.job.parsed, parser_ok)
           job == [server.job EXCEPT !.stages = Append(@, "parse"),
                                     !.parsed = parsed_file # None]
       IN server' =
              IF parsed_file = None
              THEN EndRun(server, [job EXCEPT !.status = "FAILED"])
              ELSE [server EXCEPT !.job = [job EXCEPT !.stage = "notify"]]
    /\ UNCHANGED <<storeVars, deliverVars, fetchVars, callVars, calcVars>>

\* step 3 of run() (lines 445-472): run_notifier returns stats whatever
\* happens in it
Notify ==
    /\ server.pc \notin {"off", "stopped"}
    /\ server.job.stage = "notify"
    /\ server' = EndRun(server,
                        [server.job EXCEPT !.stages = Append(@, "notify"),
                                           !.status = "SUCCESS"])
    /\ UNCHANGED <<storeVars, deliverVars, fetchVars, callVars, calcVars>>

\* the time of a job comes: run_job every interval_minutes, cleanup_job
\* every cleanup_interval_days (lines 534-537)
TimerFires(name) ==
    /\ server.pc \notin {"off", "stopped"}
    /\ IF name = "run_job"
       THEN /\ ~server.job_due
            /\ server.run_count < MaxRuns
            /\ server' = [server EXCEPT
                             !.job_due = TRUE,
                             !.late = @ \/ server.active > 0]
       ELSE /\ ~server.cleanup_due
            /\ server' = [server EXCEPT !.cleanup_due = TRUE]
    /\ UNCHANGED <<storeVars, deliverVars, fetchVars, callVars, calcVars>>

\* SIGINT or SIGTERM: the handler sets the flag (lines 503-509)
Signal ==
    /\ server.pc \notin {"off", "stopped"}
    /\ ~server.shutdown_requested
    /\ server' = [server EXCEPT !.shutdown_requested = TRUE]
    /\ UNCHANGED <<storeVars, deliverVars, fetchVars, callVars, calcVars>>

\* while not shutdown_requested (line 550)
LoopTest ==
    /\ server.pc = "loop"
    /\ server' = [server EXCEPT
                     !.pc = IF server.shutdown_requested THEN "stopped"
                            ELSE "pending"]
    /\ UNCHANGED <<storeVars, deliverVars, fetchVars, callVars, calcVars>>

\* schedule runs run_job, which is due
ScheduledRun ==
    /\ CanRunPending(server.pc)
    /\ server.job_due
    /\ server.run_count < MaxRuns
    /\ server' = BeginRun("pending")
    /\ UNCHANGED <<storeVars, deliverVars, fetchVars, callVars, calcVars>>

\* schedule runs cleanup_job, which is due (lines 529-531)
CleanupJob ==
    /\ server.pc = "pending"
    /\ server.cleanup_due
    /\ server' = [server EXCEPT !.cleanup_due = FALSE]
    /\ UNCHANGED <<storeVars, deliverVars, fetchVars, callVars, calcVars>>

\* run_pending returns and the loop sleeps for a second (line 552)
Sleep ==
    /\ server.pc = "pending"
    /\ ~(server.job_due /\ server.run_count < MaxRuns)
    /\ ~server.cleanup_due
    /\ server' = [server EXCEPT !.pc = "loop"]
    /\ UNCHANGED <<storeVars, deliverVars, fetchVars, callVars, calcVars>>

ServerInit ==
    /\ db = <<>>
    /\ now = 0
    /\ last = NoCall
    /\ chain = FALSE
    /\ DeliverIdle
    /\ FetchOff
    /\ NoCalls
    /\ ServerOff
    /\ CalcOff

ServerNext ==
    \/ ServerStart
    \/ InitialRun
    \/ \E out \in ScrapeOutcomes : Scrape(out)
    \/ \E parser_ok \in BOOLEAN : Parse(parser_ok)
    \/ Notify
    \/ \E name \in {"run_job", "cleanup_job"} : TimerFires(name)
    \/ Signal
    \/ LoopTest
    \/ ScheduledRun
    \/ CleanupJob
    \/ Sleep

SpecServer == ServerInit /\ [][ServerNext]_vars

\* a step of a pipeline run; a run whose stages all return takes them
RunStep ==
    \/ \E out \in ScrapeOutcomes : Scrape(out)
    \/ \E parser_ok \in BOOLEAN : Parse(parser_ok)
    \/ Notify

\* the server with a main thread that runs on and pipeline runs that end:
\* the main thread is the only thread, and takes the step it stands before;
\* signals and timers come when they like, but the time of a job does not
\* come round again and again within one call of run_pending (the intervals
\* are minutes and days), so run_pending returns to the sleep of the loop
SpecServerFair ==
    /\ ServerInit
    /\ [][ServerNext]_vars
    /\ WF_vars(InitialRun)
    /\ WF_vars(RunStep)
    /\ WF_vars(LoopTest)
    /\ WF_vars(ScheduledRun)
    /\ WF_vars(CleanupJob)
    /\ SF_vars(Sleep)

---------------------------------------------------------------------------
(* The parsing functions, called on their own                              *)

\* the largest number of showtime links of a movie section
MaxLinks == 3

IsDigit(c) == c \in {"0", "1", "2", "3", "4", "5", "6", "7", "8", "9"}

\* the number of digits a text starts with
RECURSIVE LeadingDigits(_)
LeadingDigits(s) ==
    IF s = <<>> \/ ~IsDigit(Head(s)) THEN 0 ELSE 1 + LeadingDigits(Tail(s))

\* the number of blanks a text starts with
RECURSIVE LeadingSpaces(_)
LeadingSpaces(s) ==
    IF s = <<>> \/ Head(s) # " " THEN 0 ELSE 1 + LeadingSpaces(Tail(s))

\* int() of a text of digits
RECURSIVE IntOf(_)
IntOf(s) ==
    IF s = <<>> THEN 0
    ELSE 10 * IntOf(SubSeq(s, 1, Len(s) - 1))
         + (Code(s[Len(s)]) - Code("0"))

\* str.upper() of a character
Upper(c) == CASE c = "a" -> "A" [] c = "m" -> "M" [] c = "p" -> "P"
              [] OTHER -> c

\* the hour of the 24-hour clock, were 12 treated as any other hour
Hour24Plain(hour, period) == IF period = "P" THEN hour + 12 ELSE hour

\* the hour of the 24-hour clock (lines 338-341)
Hour24(hour, period) ==
    IF period = "P" /\ hour # 12 THEN hour + 12
    ELSE IF period = "A" /\ hour = 12 THEN 0
    ELSE hour

\* AMCShowtimeScraper._time_to_minutes (lines 328-346): the text is matched
\* against (\d+):(\d+)\s*(AM|PM) from its start; without a match the result
\* is 0
time_to_minutes(time_str) ==
    LET nh == LeadingDigits(time_str)
        after_hour == SubSeq(time_str, nh + 1, Len(time_str))
        after_colon == Tail(after_hour)
        nm == LeadingDigits(after_colon)
        after_minute == SubSeq(after_colon, nm + 1, Len(after_colon))
        ns == LeadingSpaces(after_minute)
        period == SubSeq(after_minute, ns + 1, Len(after_minute))
        matched == /\ nh >= 1
                   /\ after_hour # <<>>
                   /\ Head(after_hour) = ":"
                   /\ nm >= 1
                   /\ Len(period) >= 2
                   /\ period[1] \in {"A", "P"}
                   /\ period[2] = "M"
    IN IF matched
       THEN Hour24(IntOf(SubSeq(time_str, 1, nh)), period[1]) * 60
            + IntOf(SubSeq(after_colon, 1, nm))
       ELSE 0

\* the showtime a link text gives (lines 285-303): the text is matched
\* against (\d{1,2}):(\d{2})\s*(am|pm), letters of either case, and written
\* again as hour:minute, a blank and the period in upper case; None without
\* a match
formatted_time(time_text) ==
    LET nh == LeadingDigits(time_text)
        after_hour == SubSeq(time_text, nh + 1, Len(time_text))
        after_colon == Tail(after_hour)
        nm == LeadingDigits(after_colon)
        after_minute == SubSeq(after_colon, 3, Len(after_colon))
        ns == LeadingSpaces(after_minute)
        period == SubSeq(after_minute, ns + 1, Len(after_minute))
        matched == /\ nh \in {1, 2}
                   /\ after_hour # <<>>
                   /\ Head(after_hour) = ":"
                   /\ nm >= 2
                   /\ Len(period) >= 2
                   /\ Upper(period[1]) \in {"A", "P"}
                   /\ Upper(period[2]) = "M"
    IN IF matched
       THEN Some(SubSeq(time_text, 1, nh) \o <<":">>
                 \o SubSeq(after_colon, 1, 2) \o <<" ">>
                 \o <<Upper(period[1]), "M">>)
       ELSE None

\* the showtimes list of the link texts, in the order of the links
RECURSIVE formatted_times(_)
formatted_times(texts) ==
    IF texts = <<>> THEN <<>>
    ELSE formatted_time(Head(texts)) \o formatted_times(Tail(texts))

\* sorted(list, key=lambda t: self._time_to_minutes(t)), which is stable
RECURSIVE sorted_by_minutes(_)
sorted_by_minutes(list) ==
    IF list = <<>> THEN <<>>
    ELSE LET s == sorted_by_minutes(SubSeq(list, 1, Len(list) - 1))
             x == list[Len(list)]
             n == Cardinality({i \in DOMAIN s :
                     time_to_minutes(s[i]) <= time_to_minutes(x)})
         IN SubSeq(s, 1, n) \o <<x>> \o SubSeq(s, n + 1, Len(s))

\* the orders in which list(set(...)) can hold the members of a set
ListsOfSet(S) == {f \in [1..Cardinality(S) -> S] : Range(f) = S}

\* link texts of a movie section: both cases of the period, with and without
\* the blank, a leading zero, midnight and noon, and a text that is no time
LinkTexts ==
    { <<"7", ":", "0", "0", " ", "p", "m">>,
      <<"7", ":", "0", "0", "P", "M">>,
      <<"0", "7", ":", "0", "0", " ", "p", "m">>,
      <<"1", "2", ":", "0", "0", " ", "a", "m">>,
      <<"1", "2", ":", "3", "0", " ", "p", "m">>,
      <<"1", ":", "0", "5", " ", "p", "m">>,
      <<"1", "1", ":", "3", "0", " ", "a", "m">>,
      <<"9", ":", "3", "0", " ", "a", "m">>,
      <<"x", "x">> }

LinkLists ==
    UNION {{SubSeq(f, 1, n) : f \in [1..n -> LinkTexts]} : n \in 0..MaxLinks}

\* the showtime lists of a record and of an event: the lists without
\* repetition over three showtimes
DiffLists ==
    UNION {{SubSeq(f, 1, n) :
              f \in {g \in [1..n -> {"7:00 PM", "9:30 PM", "11:00 PM"}] :
                        Cardinality(Range(g)) = n}} :
           n \in 1..3}

---------------------------------------------------------------------------
(* The special events parser: the pattern, findall, the classification *)

\* str.lower() of a character
Lower(c) ==
    CASE c = "A" -> "a" [] c = "E" -> "e" [] c = "M" -> "m" [] c = "P" -> "p"
      [] c = "Q" -> "q" [] c = "S" -> "s" [] OTHER -> c

\* \s and \w among the characters used
IsSpace(c) == c = " "
IsWordChar(c) == c \notin {" ", "&", "+", "-", "/", ":", ";"}

\* the parts of a regular expression: a literal, a class repeated zero or
\* more times or once or more, an optional character of a class, an optional
\* group, an alternation
Lit(s) == [k |-> "lit", s |-> s]
Star(c) == [k |-> "star", c |-> c]
Plus(c) == [k |-> "plus", c |-> c]
OptChar(cs) == [k |-> "optc", cs |-> cs]
Opt(items) == [k |-> "opt", items |-> items]
Alt(alts) == [k |-> "alt", alts |-> alts]

InClass(ch, c) == IF c = "s" THEN IsSpace(ch) ELSE ~IsWordChar(ch)

\* the number of characters of a class from position i on
RECURSIVE ClassRun(_, _, _)
ClassRun(text, i, c) ==
    IF i > Len(text) \/ ~InClass(text[i], c) THEN 0
    ELSE 1 + ClassRun(text, i + 1, c)

\* a literal matches at position i, letters of either case (flag i)
LitMatches(text, i, s) ==
    /\ i + Len(s) - 1 <= Len(text)
    /\ \A j \in 1..Len(s) : Lower(text[i + j - 1]) = s[j]

\* the positions at which a match of the parts from position i can end, in
\* the order in which the backtracking matcher tries them: a repetition and
\* an optional part take as much as they can first, an alternation tries
\* its alternatives from the left
RECURSIVE Ends(_, _, _)
RECURSIVE ItemEnds(_, _, _)
RECURSIVE EndsFrom(_, _, _)
RECURSIVE AltEnds(_, _, _)

Ends(items, text, i) ==
    IF Len(items) = 0 THEN <<i>>
    ELSE EndsFrom(ItemEnds(items[1], text, i), Tail(items), text)

EndsFrom(positions, items, text) ==
    IF Len(positions) = 0 THEN <<>>
    ELSE Ends(items, text, positions[1])
         \o EndsFrom(Tail(positions), items, text)

AltEnds(alts, text, i) ==
    IF Len(alts) = 0 THEN <<>>
    ELSE Ends(alts[1], text, i) \o AltEnds(Tail(alts), text, i)

ItemEnds(item, text, i) ==
    CASE item.k = "lit" ->
            IF LitMatches(text, i, item.s) THEN <<i + Len(item.s)>> ELSE <<>>
      [] item.k = "star" ->
            LET n == ClassRun(text, i, item.c)
            IN SubSeq([m \in 1..(n + 1) |-> i + n + 1 - m], 1, n + 1)
      [] item.k = "plus" ->
            LET n == ClassRun(text, i, item.c)
            IN SubSeq([m \in 1..n |-> i + n + 1 - m], 1, n)
      [] item.k = "optc" ->
            (IF i <= Len(text) /\ text[i] \in item.cs THEN <<i + 1>> ELSE <<>>)
            \o <<i>>
      [] item.k = "opt" -> Ends(item.items, text, i) \o <<i>>
      [] item.k = "alt" -> AltEnds(item.alts, text, i)

\* \b between position p - 1 and position p
Boundary(text, p) ==
    LET word(q) == q \in 1..Len(text) /\ IsWordChar(text[q])
    IN word(p - 1) # word(p)

\* the alternatives of SPECIAL_EVENTS_PATTERN, in their order (lines 93-104)
SPECIAL_EVENTS_PATTERN ==
    <<
      \* live(?:\s*[- ]?stream(?:ed|ing)?)?\s*q\W*a
      <<Lit(<<"l", "i", "v", "e">>),
        Opt(<<Star("s"), OptChar({"-", " "}),
                  Lit(<<"s", "t", "r", "e", "a", "m">>),
                  Opt(<<Alt(<<<<Lit(<<"e", "d">>)>>,
                              <<Lit(<<"i", "n", "g">>)>>>>)>>)>>),
        Star("s"),
        Lit(<<"q">>),
        Star("W"),
        Lit(<<"a">>)>>,
      \* q\s*(?:&|&amp;|and|\+|\/)\s*a
      <<Lit(<<"q">>),
        Star("s"),
        Alt(<<<<Lit(<<"&">>)>>, <<Lit(<<"&", "a", "m", "p", ";">>)>>,
                  <<Lit(<<"a", "n", "d">>)>>, <<Lit(<<"+">>)>>,
                  <<Lit(<<"/">>)>>>>),
        Star("s"),
        Lit(<<"a">>)>>,
      \* q\W*a
      <<Lit(<<"q">>),
        Star("W"),
        Lit(<<"a">>)>>,
      \* early\s*access
      <<Lit(<<"e", "a", "r", "l", "y">>),
        Star("s"),
        Lit(<<"a", "c", "c", "e", "s", "s">>)>>,
      \* advance(?:d)?\s*screening
      <<Lit(<<"a", "d", "v", "a", "n", "c", "e">>),
        Opt(<<Lit(<<"d">>)>>),
        Star("s"),
        Lit(<<"s", "c", "r", "e", "e", "n", "i", "n", "g">>)>>,
      \* special\s*(?:screening|event)
      <<Lit(<<"s", "p", "e", "c", "i", "a", "l">>),
        Star("s"),
        Alt(<<<<Lit(<<"s", "c", "r", "e", "e", "n", "i", "n", "g">>)>>,
                  <<Lit(<<"e", "v", "e", "n", "t">>)>>>>)>>,
      \* fan\s*event
      <<Lit(<<"f", "a", "n">>),
        Star("s"),
        Lit(<<"e", "v", "e", "n", "t">>)>>,
      \* one\s*night\s*only
      <<Lit(<<"o", "n", "e">>),
        Star("s"),
        Lit(<<"n", "i", "g", "h", "t">>),
        Star("s"),
        Lit(<<"o", "n", "l", "y">>)>>,
      \* sneak\s*peek
      <<Lit(<<"s", "n", "e", "a", "k">>),
        Star("s"),
        Lit(<<"p", "e", "e", "k">>)>>,
      \* premiere\s*event
      <<Lit(<<"p", "r", "e", "m", "i", "e", "r", "e">>),
        Star("s"),
        Lit(<<"e", "v", "e", "n", "t">>)>>,
      \* talkback
      <<Lit(<<"t", "a", "l", "k", "b", "a", "c", "k">>)>>,
      \* panel\s+discussion
      <<Lit(<<"p", "a", "n", "e", "l">>),
        Plus("s"),
        Lit(<<"d", "i", "s", "c", "u", "s", "s", "i", "o", "n">>)>>
    >>

\* movie titles: each phrase of the pattern in its spellings, titles with
\* two phrases, titles with no phrase, and the empty title
Titles ==
    { <<>>,
      <<"x">>,
      <<"x", " ", "l", "i", "v", "e", " ", "q", "&", "a">>,
      <<"Q", "&", "A", " ", "x">>,
      <<"q", " ", "&", " ", "a">>,
      <<"q", " ", "a", "n", "d", " ", "a">>,
      <<"q", "+", "a">>,
      <<"q", "/", "a">>,
      <<"q", "&", "a", "m", "p", ";", "a">>,
      <<"q", " ", "a">>,
      <<"Q", "A">>,
      <<"a", "q", "a">>,
      <<"e", "q", "u", "a", "l">>,
      <<"l", "i", "v", "e", "s", "t", "r", "e", "a", "m", " ", "q", "&", "a">>,
      <<"l", "i", "v", "e", "-", "s", "t", "r", "e", "a", "m", "e", "d", " ", "q", " ", "a">>,
      <<"l", "i", "v", "e", " ", "s", "t", "r", "e", "a", "m", "i", "n", "g", " ", "q", "&", "a">>,
      <<"e", "a", "r", "l", "y", " ", "a", "c", "c", "e", "s", "s", " ", "x">>,
      <<"e", "a", "r", "l", "y", "a", "c", "c", "e", "s", "s">>,
      <<"e", "a", "r", "l", "y", " ", " ", "a", "c", "c", "e", "s", "s">>,
      <<"a", "d", "v", "a", "n", "c", "e", " ", "s", "c", "r", "e", "e", "n", "i", "n", "g">>,
      <<"a", "d", "v", "a", "n", "c", "e", "d", " ", "s", "c", "r", "e", "e", "n", "i", "n", "g">>,
      <<"s", "p", "e", "c", "i", "a", "l", " ", "s", "c", "r", "e", "e", "n", "i", "n", "g">>,
      <<"S", "p", "e", "c", "i", "a", "l", " ", "E", "v", "e", "n", "t">>,
      <<"f", "a", "n", " ", "e", "v", "e", "n", "t">>,
      <<"f", "a", "n", "e", "v", "e", "n", "t">>,
      <<"o", "n", "e", " ", "n", "i", "g", "h", "t", " ", "o", "n", "l", "y">>,
      <<"s", "n", "e", "a", "k", " ", "p", "e", "e", "k">>,
      <<"p", "r", "e", "m", "i", "e", "r", "e", " ", "e", "v", "e", "n", "t">>,
      <<"t", "a", "l", "k", "b", "a", "c", "k">>,
      <<"t", "a", "l", "k", "b", "a", "c", "k", "s">>,
      <<"p", "a", "n", "e", "l", " ", "d", "i", "s", "c", "u", "s", "s", "i", "o", "n">>,
      <<"p", "a", "n", "e", "l", "d", "i", "s", "c", "u", "s", "s", "i", "o", "n">>,
      <<"s", "p", "e", "c", "i", "a", "l", " ", "e", "v", "e", "n", "t", " ", "q", "&", "a">>,
      <<"q", "&", "a", " ", "f", "a", "n", " ", "e", "v", "e", "n", "t">>,
      <<"f", "a", "n", " ", "e", "v", "e", "n", "t", " ", "s", "p", "e", "c", "i", "a", "l", " ", "s", "c", "r", "e", "e", "n", "i", "n", "g">>,
      <<"s", "n", "e", "a", "k", " ", "p", "e", "e", "k", " ", "e", "a", "r", "l", "y", " ", "a", "c", "c", "e", "s", "s">>,
      <<"x", " ", "p", "r", "e", "m", "i", "e", "r", "e", " ", "e", "v", "e", "n", "t", " ", "l", "i", "v", "e", " ", "q", "&", "a">> }

\* the first end, in the matcher's order, of \b( alternatives )\b at
\* position i, or None
MatchEnd(text, i) ==
    LET ends == AltEnds(SPECIAL_EVENTS_PATTERN, text, i)
        good == {n \in DOMAIN ends : Boundary(text, ends[n])}
    IN IF Boundary(text, i) /\ good # {}
       THEN Some(ends[CHOOSE n \in good : \A m \in good : n <= m])
       ELSE None

\* SPECIAL_EVENTS_PATTERN.findall(movie_name) from position i on: the
\* texts of the group of the matches, from the left, no two overlapping
RECURSIVE findall(_, _)
findall(text, i) ==
    IF i > Len(text) THEN <<>>
    ELSE IF MatchEnd(text, i) = None THEN findall(text, i + 1)
    ELSE <<SubSeq(text, i, MatchEnd(text, i)[1] - 1)>>
         \o findall(text, MatchEnd(text, i)[1])

\* word in text
Contains(text, word) ==
    \E i \in 1..(Len(text) - Len(word) + 1) :
        SubSeq(text, i, i + Len(word) - 1) = word

\* str.lower().strip(): a match begins and ends with a letter
LowerStrip(text) == SubSeq([i \in 1..Len(text) |-> Lower(text[i])], 1, Len(text))

\* the members of schema.EventType (lines 14-26)
EventType ==
    {"Advance Screening", "Early Access", "Fan Event", "One Night Only",
     "Panel Discussion", "Premiere Event", QA, "Sneak Peek", "Special Event",
     "Talkback"}

\* the words of the classification rules
Keyword ==
    [live |-> <<"l", "i", "v", "e">>,
     early_access |-> <<"e", "a", "r", "l", "y", " ", "a", "c", "c", "e", "s", "s">>,
     advance |-> <<"a", "d", "v", "a", "n", "c", "e">>,
     screening |-> <<"s", "c", "r", "e", "e", "n", "i", "n", "g">>,
     special |-> <<"s", "p", "e", "c", "i", "a", "l">>,
     event |-> <<"e", "v", "e", "n", "t">>,
     fan_event |-> <<"f", "a", "n", " ", "e", "v", "e", "n", "t">>,
     one_night_only |->
        <<"o", "n", "e", " ", "n", "i", "g", "h", "t", " ", "o", "n", "l", "y">>,
     sneak_peek |-> <<"s", "n", "e", "a", "k", " ", "p", "e", "e", "k">>,
     premiere |-> <<"p", "r", "e", "m", "i", "e", "r", "e">>,
     talkback |-> <<"t", "a", "l", "k", "b", "a", "c", "k">>,
     panel |-> <<"p", "a", "n", "e", "l">>,
     discussion |-> <<"d", "i", "s", "c", "u", "s", "s", "i", "o", "n">>]

\* classify_event_type (lines 154-191)
classify_event_type(matched_pattern) ==
    LET pattern_lower == LowerStrip(matched_pattern)
        has(word) == Contains(pattern_lower, word)
    IN IF \/ has(Keyword.live) /\ has(<<"q">>) /\ has(<<"a">>)
          \/ has(<<"q">>) /\ has(<<"a">>)
       THEN QA
       ELSE IF has(Keyword.early_access)
       THEN "Early Access"
       ELSE IF has(Keyword.advance) /\ has(Keyword.screening)
       THEN "Advance Screening"
       ELSE IF has(Keyword.special)
               /\ (has(Keyword.screening) \/ has(Keyword.event))
       THEN "Special Event"
       ELSE IF has(Keyword.fan_event)
       THEN "Fan Event"
       ELSE IF has(Keyword.one_night_only)
       THEN "One Night Only"
       ELSE IF has(Keyword.sneak_peek)
       THEN "Sneak Peek"
       ELSE IF has(Keyword.premiere) /\ has(Keyword.event)
       THEN "Premiere Event"
       ELSE IF has(Keyword.talkback)
       THEN "Talkback"
       ELSE IF has(Keyword.panel) /\ has(Keyword.discussion)
       THEN "Panel Discussion"
       ELSE "Special Event"

\* the match that is classified, were it the last one
MatchUsedLast(matches) == matches[Len(matches)]

\* matches[0] (lines 133, 143)
MatchUsed(matches) == matches[1]

\* the special events of the movies of one result (lines 123-148): a movie
\* without a name is passed over
RECURSIVE EventsOfMovies(_, _, _)
EventsOfMovies(movies, theater, date) ==
    IF Len(movies) = 0 THEN <<>>
    ELSE LET movie == movies[1]
             matches == findall(movie.name, 1)
         IN (IF Len(movie.name) > 0 /\ Len(matches) > 0
             THEN <<[movie_name |-> movie.name,
                     event_type |-> classify_event_type(MatchUsed(matches)),
                     theater |-> theater,
                     date |-> date,
                     showtimes |-> movie.showtimes,
                     runtime |-> movie.runtime,
                     rating |-> movie.rating,
                     matched_pattern |-> MatchUsed(matches),
                     slug |-> movie.slug]>>
             ELSE <<>>)
            \o EventsOfMovies(Tail(movies), theater, date)

\* the special events of the results (lines 116-148): a result that is not
\* successful is passed over
RECURSIVE EventsOfResults(_)
EventsOfResults(results) ==
    IF Len(results) = 0 THEN <<>>
    ELSE (IF results[1].success
          THEN EventsOfMovies(results[1].movies, results[1].theater,
                              results[1].date)
          ELSE <<>>)
         \o EventsOfResults(Tail(results))

\* find_special_events (lines 79-151)
find_special_events(json_data) ==
    IF json_data.results = None THEN <<>>
    ELSE EventsOfResults(json_data.results[1])

\* a scraped file with one result that holds one movie
OneMovie(title, ok) ==
    [results |-> Some(<<[success |-> ok, theater |-> Theater1,
                         date |-> DateFuture,
                         movies |-> <<[name |-> title, slug |-> SlugX,
                                       runtime |-> Some(120), rating |-> "R",
                                       showtimes |-> <<"7:00 PM">>]>>]>>)]

\* the scraped files: every title in a successful and in a failed result,
\* and a file without "results"
JsonInputs ==
    {OneMovie(title, ok) : title \in Titles, ok \in BOOLEAN}
    \cup {[results |-> None]}

---------------------------------------------------------------------------
(* The calls *)

\* each function is called once, on an input of its own

\* _time_to_minutes is called with a showtime
CalcMinutes(text) ==
    /\ CalcOff
    /\ formatted_time(text) # None
    /\ calc' = [op |-> "_time_to_minutes",
                time_str |-> formatted_time(text)[1],
                minutes |-> time_to_minutes(formatted_time(text)[1])]
    /\ UNCHANGED <<storeVars, deliverVars, fetchVars, callVars, serverVars>>

\* the showtimes of a movie section are parsed (lines 283-307)
CalcShowtimes(texts) ==
    /\ CalcOff
    /\ \E order \in ListsOfSet(Range(formatted_times(texts))) :
          calc' = [op |-> "showtimes", texts |-> texts,
                   showtimes |-> sorted_by_minutes(order)]
    /\ UNCHANGED <<storeVars, deliverVars, fetchVars, callVars, serverVars>>

\* should_notify is called with an event whose record holds other showtimes
CalcDiff(existing, new) ==
    /\ CalcOff
    /\ Range(existing) # Range(new)
    /\ LET stored == EventData("Movie Q&A", Theater1, DateFuture, SlugX, QA,
                               existing, Some(120), "R")
           event == [stored EXCEPT !.showtimes = new]
           store == mark_as_notified(<<>>, stored, FALSE, 0, "ok").db
       IN calc' = [op |-> "should_notify", existing |-> existing,
                   new |-> new,
                   result |-> should_notify(store, event, "ok")]
    /\ UNCHANGED <<storeVars, deliverVars, fetchVars, callVars, serverVars>>

\* find_special_events is called with a scraped file
CalcFindEvents(json_data) ==
    /\ CalcOff
    /\ calc' = [op |-> "find_special_events", json_data |-> json_data,
                events |-> find_special_events(json_data)]
    /\ UNCHANGED <<storeVars, deliverVars, fetchVars, callVars, serverVars>>

\* events of three locations (a name with a blank, the same name with an
\* underscore in its place, a name without either), two dates and two slugs
IdEvents ==
    {EventData("Movie Q&A", theater, date, slug, QA, <<"7:00 PM">>,
               Some(120), "R") :
        theater \in {Theater1, Theater2, <<"A">>},
        date \in {StrfDate(Day0), DateFuture},
        slug \in {SlugX, SlugY}}

\* _generate_notification_id is called for two events
CalcIds(event, other) ==
    /\ CalcOff
    /\ calc' = [op |-> "_generate_notification_id",
                events |-> <<event, other>>,
                ids |-> <<generate_notification_id(event),
                          generate_notification_id(other)>>]
    /\ UNCHANGED <<storeVars, deliverVars, fetchVars, callVars, serverVars>>

CalcInit ==
    /\ db = <<>>
    /\ now = 0
    /\ last = NoCall
    /\ chain = FALSE
    /\ DeliverIdle
    /\ FetchOff
    /\ NoCalls
    /\ ServerOff
    /\ CalcOff

CalcNext ==
    \/ \E text \in LinkTexts : CalcMinutes(text)
    \/ \E texts \in LinkLists : CalcShowtimes(texts)
    \/ \E existing \in DiffLists, new \in DiffLists : CalcDiff(existing, new)
    \/ \E json_data \in JsonInputs : CalcFindEvents(json_data)
    \/ \E event \in IdEvents, other \in IdEvents : CalcIds(event, other)

SpecCalc == CalcInit /\ [][CalcNext]_vars

---------------------------------------------------------------------------
(* Claims about the store API, checked under SpecStore *)

\* the row the last call's event is keyed to
LastId == generate_notification_id(last.ev)

\* the set of showtimes stored for a notification id
StoredSet(store, id) == Range(json_loads(store[id].showtimes))

\* C1: after should_notify(e) and a successful mark_as_notified(e, is_update
\* taken from that decision: FALSE for a new event, TRUE for a changed one),
\* a further should_notify(e) whose read succeeds returns Unchanged
C1_Idempotence ==
    (last.op = "should_notify" /\ last.after_mark /\ last.io = "ok")
        => last.ret = Unchanged

\* the third call of the sequence has returned, and the mark was an UPDATE
C1_Witness ==
    /\ last.op = "should_notify"
    /\ last.after_mark
    /\ last.io = "ok"
    /\ db[LastId].notification_count = 2
    /\ json_loads(db[LastId].showtimes) = last.ev.showtimes

\* C2: a should_notify whose read succeeds returns New exactly when no row has
\* the event's id, Unchanged exactly when a row exists whose stored showtimes
\* equal the event's as sets, and a changed decision with a diff otherwise;
\* no should_notify step (failed reads included) changes the table
C2_Decision ==
    (last.op = "should_notify" /\ last.io = "ok") =>
        /\ (last.ret = New) <=> (LastId \notin DOMAIN db)
        /\ (last.ret = Unchanged) <=>
              /\ LastId \in DOMAIN db
              /\ StoredSet(db, LastId) = Range(last.ev.showtimes)
        /\ (last.ret \notin {New, Unchanged}) =>
              /\ last.ret.should_notify
              /\ last.ret.changes # None

C2_ThreeWay ==
    /\ []C2_Decision
    /\ [][(now' = now /\ last'.op = "should_notify") => db' = db]_vars

\* a stored list and an event list that differ as lists and agree as sets
C2_Witness ==
    /\ last.op = "should_notify"
    /\ last.io = "ok"
    /\ last.ret = Unchanged
    /\ json_loads(db[LastId].showtimes) # last.ev.showtimes
    /\ Len(json_loads(db[LastId].showtimes)) # Len(last.ev.showtimes)

\* C3: the diff of a changed decision has added = new \ old, removed =
\* old \ new, unchanged = new \cap old; the three are pairwise disjoint,
\* added and unchanged make up new, removed and unchanged make up old, and
\* added and removed are not both empty
C3_Diff ==
    (last.op = "should_notify" /\ last.io = "ok" /\ last.ret.changes # None) =>
        LET old == StoredSet(db, LastId)
            new == Range(last.ev.showtimes)
            added == Range(last.ret.changes[1].added)
            removed == Range(last.ret.changes[1].removed)
            unchanged == Range(last.ret.changes[1].unchanged)
        IN /\ old # new
           /\ added = new \ old
           /\ removed = old \ new
           /\ unchanged = new \cap old
           /\ added \cap removed = {}
           /\ added \cap unchanged = {}
           /\ removed \cap unchanged = {}
           /\ added \cup unchanged = new
           /\ removed \cup unchanged = old
           /\ added \cup removed # {}

\* a diff in which all three parts are non-empty
C3_Witness ==
    /\ last.op = "should_notify"
    /\ last.io = "ok"
    /\ last.ret.changes # None
    /\ last.ret.changes[1].added # <<>>
    /\ last.ret.changes[1].removed # <<>>
    /\ last.ret.changes[1].unchanged # <<>>

\* C8: a should_notify whose read fails (sqlite3.Error, or stored showtimes
\* that cannot be decoded) returns New, whatever the table holds
C8_FailOpen ==
    (last.op = "should_notify" /\ last.io # "ok") => last.ret = New

\* the read failed on a row that equals the event: a successful read would
\* have returned Unchanged
C8_Witness ==
    /\ last.op = "should_notify"
    /\ last.io = "badjson"
    /\ last.ret = New
    /\ LastId \in DOMAIN db
    /\ should_notify(db, last.ev, "ok") = Unchanged

\* C9: a mark_as_notified whose write fails raises and leaves the table as it
\* was, so the decision for the event is what it was before the call
C9_WriteErrorPropagates ==
    [][(now' = now /\ last'.op = "mark_as_notified" /\ last'.io = "dberror")
          => /\ last'.raised
             /\ db' = db
             /\ should_notify(db', last'.ev, "ok") = should_notify(db, last'.ev, "ok")
      ]_vars

\* a failed write for an event that still needs a notification
C9_Witness ==
    /\ last.op = "mark_as_notified"
    /\ last.io = "dberror"
    /\ last.raised
    /\ LastId \in DOMAIN db
    /\ should_notify(db, last.ev, "ok") \notin {New, Unchanged}

\* C10: a successful mark_as_notified(e, TRUE) on an existing row stores e's
\* showtimes, sets last_updated_at to the time of the call, adds 1 to
\* notification_count and leaves the row's other columns and every other
\* row as they were; mark_as_notified(e, FALSE) leaves a row with count 1
\* and first_notified_at = last_updated_at
C10_MarkEffect ==
    [][(now' = now /\ last'.op = "mark_as_notified" /\ last'.io = "ok") =>
          LET id == generate_notification_id(last'.ev)
          IN /\ ~last'.raised
             /\ \A k \in DOMAIN db \ {id} : k \in DOMAIN db' /\ db'[k] = db[k]
             /\ (last'.is_update /\ id \in DOMAIN db) =>
                   /\ DOMAIN db' = DOMAIN db
                   /\ json_loads(db'[id].showtimes) = last'.ev.showtimes
                   /\ db'[id].last_updated_at = now
                   /\ db'[id].notification_count = db[id].notification_count + 1
                   /\ db'[id].first_notified_at = db[id].first_notified_at
                   /\ db'[id].theater = db[id].theater
                   /\ db'[id].date = db[id].date
                   /\ db'[id].movie_name = db[id].movie_name
                   /\ db'[id].movie_slug = db[id].movie_slug
                   /\ db'[id].event_type = db[id].event_type
                   /\ db'[id].runtime = db[id].runtime
                   /\ db'[id].rating = db[id].rating
             /\ ~last'.is_update =>
                   /\ DOMAIN db' = DOMAIN db \cup {id}
                   /\ db'[id].notification_count = 1
                   /\ db'[id].first_notified_at = db'[id].last_updated_at
                   /\ db'[id].last_updated_at = now
      ]_vars

\* an UPDATE, later than the INSERT, by an event whose name and theater
\* differ from the row's, with another row in the table
C10_Witness ==
    /\ last.op = "mark_as_notified"
    /\ last.io = "ok"
    /\ last.is_update
    /\ LastId \in DOMAIN db
    /\ db[LastId].notification_count = 2
    /\ db[LastId].first_notified_at < db[LastId].last_updated_at
    /\ db[LastId].movie_name # last.ev.movie_name
    /\ db[LastId].theater # last.ev.theater
    /\ DOMAIN db # {LastId}

\* the date strings of the days the model's rows and clock can name
DayTable ==
    [d \in (Day0 - DEFAULT_RETENTION_DAYS - 1)..(Day0 + MaxNow + 1) |->
        StrfDate(d)]

\* the calendar day a stored date string names
DayOf(date) == CHOOSE d \in DOMAIN DayTable : DayTable[d] = date

\* C11: a cleanup_old_entries(days) that meets no storage error deletes
\* exactly the rows whose date is a day strictly before today - days, returns
\* their number, deletes no row dated today or later, and leaves every other
\* row as it was
C11_Retention ==
    [][(now' = now /\ last'.op = "cleanup_old_entries" /\ last'.io = "ok") =>
          LET cutoff == Today(now) - last'.days
              old == {k \in DOMAIN db : DayOf(db[k].date) < cutoff}
          IN /\ last'.days >= 0
             /\ DOMAIN db' = DOMAIN db \ old
             /\ \A k \in DOMAIN db' : db'[k] = db[k]
             /\ last'.deleted = Cardinality(old)
             /\ \A k \in DOMAIN db :
                   DayOf(db[k].date) >= Today(now) => k \in DOMAIN db'
      ]_vars

\* a cleanup deleted one row and kept a row dated on the cutoff day
C11_Witness ==
    /\ last.op = "cleanup_old_entries"
    /\ last.io = "ok"
    /\ last.deleted = 1
    /\ \E k \in DOMAIN db :
          /\ DayOf(db[k].date) = Today(now) - last.days
          /\ db[k].last_updated_at < now

---------------------------------------------------------------------------
(* Claims about the delivery dispatcher, checked under SpecDeliver *)

\* the notification id of the call's k-th Q&A event
EventId(k) == generate_notification_id(run.qa[k])

\* the call's counters are final: the send loop is over
StatsFinal == pc \in {"cleanup", "done"}

\* the date of the call's k-th event is before the cutoff of a cleanup now
Expired(k) ==
    StrLess(run.qa[k].date, StrfDate(Today(now) - DEFAULT_RETENTION_DAYS))

\* another event of the call with the same id was marked as notified
SameIdMarked(k) ==
    \E m \in DOMAIN run.qa \ {k} : EventId(m) = EventId(k) /\ trace[m].marked

\* the counters of the three runs: n new events, the same n again, the same
\* with the showtimes of one changed
ThreeRuns ==
    LET n == Len(run.qa)
    IN /\ run.role = 1 =>
            stats.sent = n /\ stats.skipped = 0 /\ stats.updated = 0
       /\ run.role = 2 =>
            stats.sent = 0 /\ stats.skipped = n /\ stats.updated = 0
       /\ run.role = 3 =>
            stats.sent = 1 /\ stats.skipped = n - 1 /\ stats.updated = 1

\* C4 as stated, for events of any dates: with every delivery accepted and
\* no storage fault, run 1 on an empty store returns sent=n, skipped=0,
\* updated=0, run 2 with the same events returns sent=0, skipped=n,
\* updated=0, and a following run with one showtime set changed returns
\* sent=1, skipped=n-1, updated=1
C4_AnyDates ==
    (StatsFinal /\ Clean(run)) => ThreeRuns

\* C4, amended: the same counters, for events none of which is dated before
\* the cutoff (today minus 30 days) of the cleanup that ended an earlier run
\* of the sequence
C4_RetainedDates ==
    (StatsFinal /\ Clean(run) /\ run.kept) => ThreeRuns

\* the third run has returned for two events, one of them changed
C4_Witness ==
    /\ pc = "done"
    /\ run.role = 3
    /\ Clean(run)
    /\ run.kept
    /\ run.nchats = 2
    /\ Len(run.qa) = 2
    /\ stats = [ZeroStats EXCEPT !.sent = 1, !.skipped = 1, !.updated = 1]

\* C5 as stated: when the call returns, an event decided New or Changed is
\* counted as sent and marked as notified exactly when at least one
\* destination accepted its message
C5_AtLeastOneAccepted ==
    (pc = "done" /\ ~run.faulted /\ run.nchats >= 1) =>
        /\ \A k \in DOMAIN run.qa :
              trace[k].dec.should_notify =>
                  /\ trace[k].counted <=> trace[k].accepts >= 1
                  /\ trace[k].marked <=> trace[k].accepts >= 1
        /\ stats.sent = Cardinality({k \in DOMAIN run.qa :
                              /\ trace[k].dec.should_notify
                              /\ trace[k].accepts >= 1})

\* the message of the call's k-th event, decided from a successful read of
\* the store, was sent to every destination and rejected by each
AllRejected(k) ==
    /\ run.nchats >= 1
    /\ trace[k].checked
    /\ trace[k].dec.should_notify
    /\ trace[k].dec = should_notify(run.dbStart, run.qa[k], "ok")
    /\ trace[k].sends = run.nchats
    /\ trace[k].accepts = 0

\* the row of the k-th event's id is as it was when the call started, and a
\* further call would decide as this one did
RowAsBefore(k) ==
    /\ EventId(k) \in DOMAIN db <=> EventId(k) \in DOMAIN run.dbStart
    /\ EventId(k) \in DOMAIN db => db[EventId(k)] = run.dbStart[EventId(k)]
    /\ should_notify(db, run.qa[k], "ok") = trace[k].dec

\* C6 as stated: when the call is over, the row of an event that every
\* destination rejected is exactly as it was before the call, and the next
\* call recomputes the same decision
C6_RowUntouched ==
    pc \in {"done", "raised"} =>
        \A k \in DOMAIN run.qa : AllRejected(k) => RowAsBefore(k)

\* C6, amended: the same, unless another event of the call with the same id
\* was delivered and marked; and for an event dated before the cleanup's
\* cutoff the row is either as before or deleted by the cleanup
C6_RowUntouchedUnlessExpired ==
    pc \in {"done", "raised"} =>
        \A k \in DOMAIN run.qa :
            (AllRejected(k) /\ ~SameIdMarked(k)) =>
                \/ RowAsBefore(k)
                \/ Expired(k) /\ pc = "done" /\ EventId(k) \notin DOMAIN db

\* a changed event rejected by both of two destinations, its row kept
C6_Witness ==
    /\ pc = "done"
    /\ run.nchats = 2
    /\ stats.failed = 2
    /\ \E k \in DOMAIN run.qa :
          /\ AllRejected(k)
          /\ trace[k].dec.changes # None
          /\ RowAsBefore(k)
          /\ db[EventId(k)].notification_count = 1

---------------------------------------------------------------------------
(* Claims about the fetch stage, checked under SpecFetch *)

\* scrape_date has ended for the unit, by a return or by an exception
Ended(u) ==
    units[u].st \in {"finished", "raised", "collected", "collected_raised"}

\* the future of the unit holds an exception
Raised(u) == units[u].st \in {"raised", "collected_raised"}

\* the network fails every attempt the configuration allows the unit
PermanentlyFailing(u) ==
    /\ units[u].task.theater.market # None
    /\ Len(net[u]) = config.max_retries
    /\ \A i \in DOMAIN net[u] : net[u][i] \in Failures

\* C12 as stated: for every max_retries and every retry_delays list, the
\* empty one included, a unit whose every attempt fails has had exactly
\* max_retries attempts when scrape_date ends, and scrape_date ends by
\* returning the failed result, not by an exception
C12_RetryExhaustion ==
    \A u \in DOMAIN units :
        (PermanentlyFailing(u) /\ Ended(u)) =>
            /\ units[u].made = config.max_retries
            /\ ~Raised(u)
            /\ units[u].result = Some(ResultNoData(units[u].task))

\* the increments of a counter issued for the first n units
RECURSIVE IncsIssued(_, _)
IncsIssued(key, n) ==
    IF n = 0 THEN 0 ELSE units[n].incs[key] + IncsIssued(key, n - 1)

\* the attempts made for the first n units
RECURSIVE AttemptsMade(_)
AttemptsMade(n) == IF n = 0 THEN 0 ELSE units[n].made + AttemptsMade(n - 1)

\* C13: under every interleaving of the pool threads each counter of
\* self.stats equals the number of increments issued for it so far, and when
\* scrape_all_parallel returns total_requests equals the number of attempts
\* made across all units
C13_NoLostUpdates ==
    /\ \A key \in StatKeys :
          scraper_stats[key] = IncsIssued(key, Len(units))
    /\ fpc = "done" =>
          scraper_stats["total_requests"] = AttemptsMade(Len(units))

\* a pool of two threads has fetched four units with six attempts
C13_Witness ==
    /\ fpc = "done"
    /\ config.max_workers = 2
    /\ Len(units) = 4
    /\ AttemptsMade(Len(units)) = 6
    /\ scraper_stats["total_requests"] = 6
    /\ scraper_stats["successful_requests"] = 3
    /\ scraper_stats["failed_requests"] = 1

\* C14 as stated: when scrape_date has ended for a unit, total_requests was
\* incremented once per attempt, successful_requests once if an attempt
\* succeeded (the last one made) and not otherwise, failed_requests once if
\* all max_retries attempts failed and not otherwise, and never both
C14_PerUnitAccounting ==
    \A u \in DOMAIN units :
        (Ended(u) /\ units[u].task.theater.market # None) =>
            LET unit == units[u]
                all_failed == ~unit.fetched /\ unit.made = config.max_retries
            IN /\ unit.incs["total_requests"] = unit.made
               /\ unit.incs["successful_requests"] =
                     (IF unit.fetched THEN 1 ELSE 0)
               /\ unit.fetched => Outcome(u, unit.made) \in Bodies
               /\ unit.incs["failed_requests"] = (IF all_failed THEN 1 ELSE 0)
               /\ ~(/\ unit.incs["successful_requests"] > 0
                    /\ unit.incs["failed_requests"] > 0)

\* C15: after a failed attempt with index i that was a timeout or a
\* connection error, when another attempt remains and retry_delays is not
\* empty, the thread sleeps once, for retry_delays[min(i, len - 1)] (indices
\* from 0): past the end of the list the last delay is used again
C15_BackoffSelection ==
    \A u \in DOMAIN units :
        LET w == units[u].wait
            n == Len(config.retry_delays)
        IN (/\ w.kind \in {"timeout", "connerror"}
            /\ w.index < config.max_retries - 1
            /\ n > 0) =>
               /\ ~w.raised
               /\ w.sleeps =
                     <<config.retry_delays[(IF w.index < n - 1
                                            THEN w.index ELSE n - 1) + 1]>>

\* the third attempt timed out under a list of two delays, and the thread
\* slept for the second delay
C15_Witness ==
    \E u \in DOMAIN units :
        /\ units[u].wait.kind = "timeout"
        /\ units[u].wait.index = 2
        /\ config.retry_delays = <<1, 3>>
        /\ units[u].wait.sleeps = <<3>>
        /\ units[u].made = 4

\* the sum of a sequence of numbers
RECURSIVE SeqSum(_)
SeqSum(s) == IF s = <<>> THEN 0 ELSE Head(s) + SeqSum(Tail(s))

\* C16 as stated: after an attempt that failed with HTTP 429 and is followed
\* by another attempt, the time slept before that attempt is twice the last
\* entry of retry_delays, whatever the index of the attempt
C16_RateLimitBackoff ==
    \A u \in DOMAIN units :
        LET w == units[u].wait
            n == Len(config.retry_delays)
        IN (/\ w.kind = "http429"
            /\ w.index < config.max_retries - 1
            /\ n > 0) =>
               SeqSum(w.sleeps) = 2 * config.retry_delays[n]

\* the result the collection loop appends for a unit whose future is done
ResultOf(unit) ==
    IF unit.st \in {"raised", "collected_raised"}
    THEN ResultOfException(unit.task)
    ELSE unit.result[1]

\* the results of the units in the order the tasks were submitted: the list
\* the collection loop builds when the futures complete in that order
ResultsInTaskOrder == [u \in DOMAIN units |-> ResultOf(units[u])]

\* a list in the order of the key (theater, date)
SortedByKey(list) ==
    \A i, j \in DOMAIN list : i < j => ~KeyLess(list[j], list[i])

\* C17 as stated: the list scrape_all_parallel returns is sorted by
\* (theater, date) and, for given tasks and given outcomes of the tasks, is
\* the one list the submission order gives, whatever the order in which the
\* futures complete, for every list of theaters
C17_OrderStability ==
    fpc = "done" =>
        /\ SortedByKey(all_results)
        /\ all_results = StableSort(ResultsInTaskOrder)

\* the number of places of a list that hold x
Count(list, x) == Cardinality({i \in DOMAIN list : list[i] = x})

\* C18 as stated (its safety part): no exception leaves scrape_all_parallel;
\* the list it returns holds exactly one result for every submitted task,
\* none missing and none twice; and a task whose thread raised an exception,
\* whatever the exception, is there as a result with success false and an
\* error message
C18_OneResultPerUnit ==
    /\ fpc \notin {"unwinding", "raised"}
    /\ fpc = "done" =>
          /\ Len(all_results) = Len(units)
          /\ \A u \in DOMAIN units :
                Count(all_results, ResultOf(units[u])) =
                    Count(ResultsInTaskOrder, ResultOf(units[u]))
          /\ \A u \in DOMAIN units :
                Raised(u) =>
                    /\ ~ResultOf(units[u]).success
                    /\ ResultOf(units[u]).error_message # None

---------------------------------------------------------------------------
(* Claims about the delivery dispatcher under abort and under concurrent   *)
(* calls                                                                   *)

\* the call has written the record of the id: it is not as the call found it
Written(id) ==
    /\ id \in DOMAIN db
    /\ id \notin DOMAIN run.dbStart \/ db[id] # run.dbStart[id]

BetweenReadAndWrite(p, k) ==
    /\ calls[p].pc = "mark"
    /\ calls[p].etn[calls[p].j].k = k
    /\ calls[p].trace[k].read = "ok"

\* both processes decided from a good read that the event of one id is new,
\* sent it to every chat and recorded it
BothSentAsNew(p, q) ==
    \E k \in DOMAIN calls[p].trace, m \in DOMAIN calls[q].trace :
        /\ generate_notification_id(calls[p].qa[k]) =
               generate_notification_id(calls[q].qa[m])
        /\ calls[p].trace[k].read = "ok" /\ calls[q].trace[m].read = "ok"
        /\ calls[p].trace[k].dec = New /\ calls[q].trace[m].dec = New
        /\ calls[p].trace[k].marked /\ calls[q].trace[m].marked

\* C20 as stated: when a call comes to its mark_as_notified write for an
\* event, the record of the event's id is as the call's should_notify read
\* found it, no other process having written it in between (for a call
\* with one event, which writes the record once); and two calls interleaved
\* on one store never both decide New for the same event and both send it
C20_ReadDecideWriteAtomic ==
    /\ \A p \in Callers : \A k \in DOMAIN calls[p].trace :
          (BetweenReadAndWrite(p, k) /\ Len(calls[p].qa) = 1) =>
              RowAt(db, generate_notification_id(calls[p].qa[k])) =
                  calls[p].trace[k].seen
    /\ ~BothSentAsNew(1, 2)

---------------------------------------------------------------------------
(* Claims about the pipeline and its server mode, checked under SpecServer *)

\* C21: in server mode at most one pipeline run is in progress at any time:
\* a run that has come due while another is in progress starts only after
\* that one has returned, so the steps of two runs, the reads and writes of
\* the store among them, never overlap
C21_SingleWriter ==
    server.pc # "off" =>
        /\ server.active <= 1
        /\ server.job.stage # "none" => server.active = 1 /\ server.pc = "job"
        /\ server.pc = "job" => server.active = 1

\* run_job came due during the run at startup and the second run, started
\* after that one had returned, is in its notify step
C21_Witness ==
    /\ server.pc = "job"
    /\ server.late
    /\ server.run_count = 2
    /\ server.active = 1
    /\ server.job.stage = "notify"

\* a pipeline run has returned
RunEnded ==
    /\ server.pc # "off"
    /\ server.job.stage = "none"
    /\ server.job.stages # <<>>

\* C22 as stated: a run stops after its scrape step, before parse and
\* deliver, and reports failure exactly when no unit of its fetch stage
\* succeeded; when a unit succeeded the failures of the other units do not
\* stop the run: the parse step is executed next, and the deliver step after
\* a parse step that gave its file
C22_AbortOnlyWithoutSuccess ==
    RunEnded =>
        LET job == server.job
            none == Successful(job.units) = 0
        IN /\ (job.stages = <<"scrape">> /\ job.status = "FAILED") <=> none
           /\ ~none =>
                 /\ Len(job.stages) >= 2
                 /\ job.stages[2] = "parse"
                 /\ job.parsed => job.stages = <<"scrape", "parse", "notify">>

---------------------------------------------------------------------------
(* Further claims about the delivery dispatcher, checked under SpecDeliver *)

\* C23 as stated: every call that has ended, whatever its list of events
\* (the empty one included), has invoked the retention cleanup exactly once,
\* and no cleanup is invoked while events are being checked, sent or marked
C23_CleanupOnce ==
    /\ pc \in {"done", "raised"} => run.cleanups = 1
    /\ pc \in {"check", "send", "mark", "cleanup"} => run.cleanups = 0

\* C23, amended: a call with at least one Q&A event that returns has invoked
\* the retention cleanup exactly once, after the checks, sends and marks of
\* all its events, whether or not an event needed a notification; a call
\* without a Q&A event, and a call left through a storage error of
\* mark_as_notified, has invoked none
C23_CleanupOnceWithEvents ==
    /\ pc = "done" => run.cleanups = (IF run.qa = <<>> THEN 0 ELSE 1)
    /\ pc = "raised" => run.cleanups = 0
    /\ pc \in {"check", "send", "mark", "cleanup"} => run.cleanups = 0
    /\ pc = "cleanup" =>
          \A k \in DOMAIN trace :
              /\ trace[k].checked
              /\ trace[k].dec.should_notify =>
                    /\ trace[k].sends = run.nchats
                    /\ trace[k].marked <=> trace[k].accepts = run.nchats

\* a call with two events, one skipped and one sent and marked, has run its
\* cleanup and returned
C23_Witness ==
    /\ pc = "done"
    /\ run.cleanups = 1
    /\ Len(run.qa) = 2
    /\ stats.skipped = 1
    /\ stats.sent = 1

\* C24 as stated: in the stats a call returns, updated is the number of
\* events whose decision was Changed and that were counted as sent, so
\* updated <= sent
C24_UpdatedWithinSent ==
    pc = "done" =>
        /\ stats.updated =
              Cardinality({k \in DOMAIN trace :
                              /\ trace[k].dec.changes # None
                              /\ trace[k].counted})
        /\ stats.updated <= stats.sent

---------------------------------------------------------------------------
(* Claims about the parsing functions, checked under SpecCalc *)

\* a list of showtimes in ascending time of day
AscendingTimes(list) ==
    \A i \in DOMAIN list : \A j \in DOMAIN list :
        i < j => time_to_minutes(TimeChars(list[i]))
                   < time_to_minutes(TimeChars(list[j]))

\* C25: the added, removed and unchanged lists of a diff are each in
\* ascending time-of-day order; with 7:00 PM, 9:30 PM and 11:00 PM stored and
\* 7:00 PM alone in the event, removed is 9:30 PM followed by 11:00 PM,
\* unchanged is 7:00 PM and added is empty.
C25_DiffInTimeOrder ==
    (calc.op = "should_notify" /\ calc.result.changes # None) =>
        LET changes == calc.result.changes[1]
        IN /\ AscendingTimes(changes.added)
           /\ AscendingTimes(changes.removed)
           /\ AscendingTimes(changes.unchanged)
           /\ (/\ Range(calc.existing) = {"7:00 PM", "9:30 PM", "11:00 PM"}
               /\ Range(calc.new) = {"7:00 PM"})
              => /\ changes.removed = <<"9:30 PM", "11:00 PM">>
                 /\ changes.unchanged = <<"7:00 PM">>
                 /\ changes.added = <<>>

---------------------------------------------------------------------------
(* A further claim about the fetch stage, checked under SpecFetch *)

\* a result is successful exactly if it holds a movie
SuccessIffMovies(result) == result.success <=> result.movies > 0

\* C26: every result of the fetch stage, on each of its paths (no text
\* fetched, nothing parsed, every movie rejected by validation, an exception
\* of the parse, an exception of the worker, a parse with movies), is
\* successful if and only if its movie list is not empty, and the result of
\* a unit whose fetch failed is unsuccessful and holds no movie.
C26_DailyResultInvariant ==
    /\ \A u \in DOMAIN units :
          units[u].result # None =>
              /\ SuccessIffMovies(units[u].result[1])
              /\ ~units[u].fetched =>
                    /\ ~units[u].result[1].success
                    /\ units[u].result[1].movies = 0
    /\ \A i \in DOMAIN all_results :
          /\ SuccessIffMovies(all_results[i])
          /\ all_results[i].error_message # None
                => /\ ~all_results[i].success
                   /\ all_results[i].movies = 0

\* the sorted results hold a successful result, the result of a unit whose
\* every attempt failed, and the result of a unit that was fetched and gave
\* no movie
C26_Witness ==
    /\ fpc = "done"
    /\ \E i \in DOMAIN all_results :
          all_results[i].success /\ all_results[i].movies > 0
    /\ \E u \in DOMAIN units :
          /\ ~units[u].fetched
          /\ units[u].result # None
          /\ units[u].result[1] \in Range(all_results)
    /\ \E u \in DOMAIN units :
          /\ units[u].fetched
          /\ units[u].result # None
          /\ ~units[u].result[1].success
          /\ units[u].result[1] \in Range(all_results)

\* the hour, the minute and the period of a showtime written H:MM AM or
\* HH:MM PM
HourOf(t) == IntOf(SubSeq(t, 1, Len(t) - 6))
MinuteOf(t) == IntOf(SubSeq(t, Len(t) - 4, Len(t) - 3))
PeriodOf(t) == t[Len(t) - 1]

\* minutes since midnight as the time of day defines them
MinutesSinceMidnight(t) ==
    CASE HourOf(t) = 12 /\ PeriodOf(t) = "A" -> MinuteOf(t)
      [] HourOf(t) = 12 /\ PeriodOf(t) = "P" -> 720 + MinuteOf(t)
      [] HourOf(t) # 12 /\ PeriodOf(t) = "A" -> 60 * HourOf(t) + MinuteOf(t)
      [] HourOf(t) # 12 /\ PeriodOf(t) = "P" ->
            60 * (HourOf(t) + 12) + MinuteOf(t)

Midnight == <<"1", "2", ":", "0", "0", " ", "A", "M">>
HalfPastNoon == <<"1", "2", ":", "3", "0", " ", "P", "M">>
FivePastOne == <<"1", ":", "0", "5", " ", "P", "M">>

\* the place of a member in a list without duplicates
IndexOf(list, x) == CHOOSE i \in DOMAIN list : list[i] = x

\* C27: _time_to_minutes gives MM for 12:MM AM, 720+MM for 12:MM PM, 60H+MM
\* for H:MM AM and 60(H+12)+MM for H:MM PM with H other than 12; the
\* showtime list of a parsed movie holds every time of its links once, with
\* no string twice, in non-decreasing minutes since midnight, whatever the
\* order and the multiplicity of the link texts: 12:00 AM comes first and
\* 1:05 PM comes after 12:30 PM.
C27_ShowtimesNormalizedAndSorted ==
    /\ calc.op = "_time_to_minutes" =>
          calc.minutes = MinutesSinceMidnight(calc.time_str)
    /\ calc.op = "showtimes" =>
          LET list == calc.showtimes
          IN /\ Range(list) = Range(formatted_times(calc.texts))
             /\ \A i \in DOMAIN list : \A j \in DOMAIN list :
                   i < j => /\ list[i] # list[j]
                            /\ MinutesSinceMidnight(list[i])
                                 <= MinutesSinceMidnight(list[j])
             /\ Midnight \in Range(list) => list[1] = Midnight
             /\ {HalfPastNoon, FivePastOne} \subseteq Range(list) =>
                   IndexOf(list, HalfPastNoon) < IndexOf(list, FivePastOne)

\* three links in descending time of day, with the period in lower case,
\* give the list in ascending time of day
C27_Witness ==
    /\ calc.op = "showtimes"
    /\ calc.texts = <<<<"1", ":", "0", "5", " ", "p", "m">>,
                      <<"1", "2", ":", "3", "0", " ", "p", "m">>,
                      <<"1", "2", ":", "0", "0", " ", "a", "m">>>>
    /\ calc.showtimes = <<Midnight, HalfPastNoon, FivePastOne>>

\* the keyword rules in their priority: every word of all and, where any is
\* not empty, one word of any is in the phrase
KeywordRules ==
    <<[all |-> {Keyword.early_access}, any |-> {}, type |-> "Early Access"],
      [all |-> {Keyword.advance, Keyword.screening}, any |-> {},
       type |-> "Advance Screening"],
      [all |-> {Keyword.special}, any |-> {Keyword.screening, Keyword.event},
       type |-> "Special Event"],
      [all |-> {Keyword.fan_event}, any |-> {}, type |-> "Fan Event"],
      [all |-> {Keyword.one_night_only}, any |-> {}, type |-> "One Night Only"],
      [all |-> {Keyword.sneak_peek}, any |-> {}, type |-> "Sneak Peek"],
      [all |-> {Keyword.premiere, Keyword.event}, any |-> {}, type |-> "Premiere Event"],
      [all |-> {Keyword.talkback}, any |-> {}, type |-> "Talkback"],
      [all |-> {Keyword.panel, Keyword.discussion}, any |-> {},
       type |-> "Panel Discussion"]>>

RuleApplies(rule, phrase) ==
    /\ \A word \in rule.all : Contains(phrase, word)
    /\ rule.any # {} => \E word \in rule.any : Contains(phrase, word)

\* a Q&A signal: the phrase is one of the Q and A spellings, alone or after
\* live, livestream and the like
QASignal(phrase) ==
    /\ phrase[Len(phrase)] = "a"
    /\ phrase[1] = "q" \/ SubSeq(phrase, 1, 4) = Keyword.live

\* the category the rules give a phrase
CategoryOf(matched) ==
    LET phrase == LowerStrip(matched)
        applying == {n \in DOMAIN KeywordRules :
                        RuleApplies(KeywordRules[n], phrase)}
    IN IF QASignal(phrase) THEN QA
       ELSE IF applying = {} THEN "Special Event"
       ELSE KeywordRules[CHOOSE n \in applying :
                            \A m \in applying : n <= m].type

\* the title holds an event phrase from position i on
PhraseAt(title, i) == MatchEnd(title, i) # None

\* the title of the one movie of the scraped file
TitleOf(json_data) == json_data.results[1][1].movies[1].name

SpecialThenQA ==
    <<"s", "p", "e", "c", "i", "a", "l", " ", "e", "v", "e", "n", "t", " ",
      "q", "&", "a">>
QAThenFan ==
    <<"q", "&", "a", " ", "f", "a", "n", " ", "e", "v", "e", "n", "t">>

\* C28: the event of a title is classified by the leftmost event phrase of
\* the title and by the keyword rules, in their priority, on the lower-case
\* text of that phrase: a Q&A signal gives Q&A, then early access, advance and
\* screening, special and screening or event, fan event, one night only,
\* sneak peek, premiere and event, talkback, panel and discussion give their
\* categories, and anything else gives Special Event; the category is a
\* member of EventType, and a title without a phrase gives no event.
C28_ClassifiedByFirstPhrase ==
    (/\ calc.op = "find_special_events"
     /\ calc.json_data.results # None
     /\ calc.json_data.results[1][1].success) =>
        LET title == TitleOf(calc.json_data)
            starts == {i \in 1..Len(title) : PhraseAt(title, i)}
            first == CHOOSE i \in starts : \A j \in starts : i <= j
            phrase == SubSeq(title, first, MatchEnd(title, first)[1] - 1)
        IN IF starts = {} THEN calc.events = <<>>
           ELSE /\ Len(calc.events) = 1
                /\ calc.events[1].movie_name = title
                /\ calc.events[1].matched_pattern = phrase
                /\ calc.events[1].event_type = CategoryOf(phrase)
                /\ calc.events[1].event_type \in EventType
                /\ title = SpecialThenQA =>
                      calc.events[1].event_type = "Special Event"
                /\ title = QAThenFan => calc.events[1].event_type = QA

\* a title with a special-event phrase before a Q&A phrase was classified
C28_Witness ==
    /\ calc.op = "find_special_events"
    /\ calc.json_data = OneMovie(SpecialThenQA, TRUE)
    /\ Len(calc.events) = 1
    /\ calc.events[1].event_type = "Special Event"

\* the location, the date and the slug of an event
KeyOf(event) == <<event.theater, event.date, event.slug>>

\* C29: the notification id is a deterministic and collision-free key: two
\* events with the same location, date and slug have the same id, and two
\* events that differ in location, date or slug have different ids.
C29_IdCollisionFree ==
    calc.op = "_generate_notification_id" =>
        (KeyOf(calc.events[1]) = KeyOf(calc.events[2]))
            <=> (calc.ids[1] = calc.ids[2])

\* every event of the call is dated today or later
DatedFromToday ==
    \A k \in DOMAIN run.qa : ~StrLess(run.qa[k].date, StrfDate(Today(now)))

\* C30: for a list of Q&A events dated today or later, lists in which two
\* events share a notification id with different showtimes included, and
\* with every delivery to the call's chats accepted, the second of two calls
\* with the same list sends no message: sent = 0 and every event is skipped.
C30_QuiescentOnRepeat ==
    (/\ StatsFinal
     /\ Clean(run)
     /\ run.nchats >= 1
     /\ run.role \in {2, 4}
     /\ DatedFromToday) =>
        stats.sent = 0 /\ stats.skipped = Len(run.qa)

---------------------------------------------------------------------------
(* Further claims about the store API, checked under SpecStore *)

\* the step writes no row, or is a mark that follows a decision to notify
\* that should_notify gave its caller for the same event (is_update exactly
\* for a change)
MarkFollowsDecision ==
    (last'.op = "mark_as_notified" /\ db' # db) =>
        chain' /\ last.ret.should_notify

\* the rows of the records that exist before and after the step keep their
\* history
HistoryKept ==
    \A id \in DOMAIN db \cap DOMAIN db' :
        /\ db'[id].notification_count >= db[id].notification_count
        /\ db'[id].first_notified_at = db[id].first_notified_at

\* C31: under any sequence of should_notify and mark_as_notified calls in
\* which each mark follows the decision of should_notify, a read that failed
\* open and is followed by a mark as new included, a record that exists has
\* notification_count >= 1 and first_notified_at <= last_updated_at, its
\* notification_count never decreases and its first_notified_at never
\* changes.
C31_HistoryMonotonic ==
    [][MarkFollowsDecision =>
          /\ HistoryKept
          /\ \A id \in DOMAIN db' :
                /\ db'[id].notification_count >= 1
                /\ db'[id].first_notified_at <= db'[id].last_updated_at]_vars

\* C32: when mark_as_notified returns without raising, for either value of
\* is_update and any table, a table without a record of the event's id
\* included, the table holds a record of the event's notification id whose
\* stored showtimes are the event's showtimes.
C32_MarkedRecordExists ==
    (last.op = "mark_as_notified" /\ ~last.raised) =>
        LET id == generate_notification_id(last.ev)
        IN /\ id \in DOMAIN db
           /\ json_loads(db[id].showtimes) = last.ev.showtimes

---------------------------------------------------------------------------
(* Further claims about the delivery dispatcher, checked under SpecDeliver *)

\* the events of a list that are of type Q&A
OnlyQA(events) == \A k \in DOMAIN events : events[k].event_type = QA

\* C33: only Q&A events are dispatched: every event the call checks against
\* the table, queues for sending, sends or marks is of type Q&A, the four
\* counters count Q&A events only (an event of another type of the input is
\* in none of them), and every record the table holds after writes made by
\* the call is of type Q&A.
C33_OnlyQADispatched ==
    /\ OnlyQA(run.qa)
    /\ DOMAIN trace \subseteq DOMAIN run.qa
    /\ \A k \in DOMAIN etn : etn[k].event.event_type = QA /\ etn[k].k \in DOMAIN run.qa
    /\ stats.skipped + Len(etn) <= Len(run.qa)
    /\ stats.sent <= Len(etn)
    /\ stats.updated <= Len(etn)
    /\ stats.failed <= Len(etn) * run.nchats
    /\ \A id \in DOMAIN db : db[id].event_type = QA

\* a call given a Q&A event, an event of another type and a second Q&A event
\* has sent and marked the two Q&A events and has no record of the other one
C33_Witness ==
    /\ pc = "done"
    /\ run.qa = <<P1, P2>>
    /\ stats.sent = 2
    /\ PFan.event_type # QA
    /\ generate_notification_id(PFan) \notin DOMAIN db
    /\ Cardinality(DOMAIN db) = 2

\* C34: the counts a call returns partition the Q&A events it processed:
\* for any number of chats and any pattern of rejected sends, when the call
\* returns its counts, sent + failed + skipped is the number of Q&A events of
\* the input.
C34_CountsPartitionEvents ==
    pc = "done" => stats.sent + stats.failed + stats.skipped = Len(run.qa)

---------------------------------------------------------------------------
(* Further claims about the fetch stage, checked under SpecFetch *)

\* C35: with max_retries >= 1 and N units, in every state
\* successful_requests + failed_requests <= total_requests <=
\* N * max_retries, and once scrape_date has ended for every unit
\* successful_requests + failed_requests = N.
C35_CounterBounds ==
    config.max_retries >= 1 =>
        LET N == Len(units)
            done == scraper_stats["successful_requests"]
                      + scraper_stats["failed_requests"]
        IN /\ done <= scraper_stats["total_requests"]
           /\ scraper_stats["total_requests"] <= N * config.max_retries
           /\ (\A u \in DOMAIN units : Ended(u)) => done = N

\* C36: the result of a unit reports "Failed to fetch data after all
\* retries" only if all max_retries attempts of the unit failed and
\* failed_requests was incremented for it; a unit with an attempt that
\* succeeded (successful_requests incremented), whatever the body, has no
\* such result.
C36_ExhaustionOnlyAfterFailures ==
    \A u \in DOMAIN units :
        LET unit == units[u]
        IN unit.result = Some(ResultNoData(unit.task)) =>
              /\ unit.made = config.max_retries
              /\ ~unit.fetched
              /\ unit.incs["failed_requests"] = 1
              /\ unit.incs["successful_requests"] = 0

\* C37: no wait follows the final attempt: whatever the failure of attempt
\* number max_retries (timeout, HTTP error with 429 included, connection
\* error), _fetch_with_retry sleeps no more and goes on to return the failed
\* result; sleeps lie between two attempts only.  (Stated for a retry_delays
\* list that is not empty: with the empty list the sleep raises IndexError.)
C37_NoWaitAfterLastAttempt ==
    \A u \in DOMAIN units :
        LET unit == units[u]
        IN (unit.wait.index = config.max_retries - 1
              /\ unit.wait.kind \in Failures
              /\ config.retry_delays # <<>>) =>
              /\ unit.wait.sleeps = <<>>
              /\ ~unit.wait.raised

---------------------------------------------------------------------------
(* Further claims about the server mode, checked under SpecServer and     *)
(* SpecServerFair                                                          *)

\* a signal has been received
ShutdownRequested == server.pc # "off" /\ server.shutdown_requested

\* C38, first part: once SIGINT or SIGTERM has been received, no new
\* pipeline run is started.
C38_NoRunAfterSignal ==
    [][ShutdownRequested => server'.run_count = server.run_count]_vars

\* C38, second part: the run in progress when the signal comes is allowed
\* to complete: the server has stopped only with no run under way, and every
\* run it began has gone through to a status.
C38_RunCompletes ==
    server.pc = "stopped" =>
        /\ server.active = 0
        /\ server.job.stage = "none"
        /\ server.job.status \in {"SUCCESS", "FAILED"}

\* C38, third part: provided each pipeline run terminates, the server loop
\* terminates after a signal.
C38_EventuallyStops == ShutdownRequested ~> (server.pc = "stopped")

\* C38: graceful shutdown of the server mode, the three parts together
C38_GracefulShutdown ==
    /\ C38_NoRunAfterSignal
    /\ [](C38_RunCompletes)
    /\ C38_EventuallyStops

---------------------------------------------------------------------------
(* Further claims about the special events parser, checked under SpecCalc *)

\* the categories of the alternatives of the pattern after the three Q and A
\* alternatives, in the order of the pattern
AlternativeCategories ==
    <<"Early Access", "Advance Screening", "Special Event", "Fan Event",
      "One Night Only", "Sneak Peek", "Premiere Event", "Talkback",
      "Panel Discussion">>

\* the n-th alternative of the pattern accepts the whole phrase
Accepts(n, phrase) ==
    \E m \in DOMAIN Ends(SPECIAL_EVENTS_PATTERN[n], phrase, 1) :
        Ends(SPECIAL_EVENTS_PATTERN[n], phrase, 1)[m] = Len(phrase) + 1

====
